---- MODULE Spec2Model ----
(***************************************************************************)
(* The query-generation-and-safety pipeline of ai-database-chat:           *)
(* DatabaseAgent.process_query (routing, generation, safety validation,    *)
(* dispatch to MCPManager.execute_tool, history bookkeeping), the two      *)
(* generators, and the validators of src/utils/helpers.py.                 *)
(*                                                                         *)
(* Text is a TLA+ string; TLC evaluates Len, SubSeq and \o on strings, so  *)
(* str.upper, str.lower, str.strip, the `in` substring test and            *)
(* str.count are computed character by character.                          *)
(*                                                                         *)
(* A Python / JSON value is a tagged record [t, v]:                        *)
(*   null  [t |-> "null", v |-> ""]      str   [t |-> "str",  v |-> "abc"] *)
(*   num   [t |-> "num",  v |-> 7]       bool  [t |-> "bool", v |-> TRUE]  *)
(*   list  [t |-> "list", v |-> <<values>>]                                *)
(*   dict  [t |-> "dict", v |-> <<[k |-> key, v |-> value], ...>>]         *)
(* A dict keeps its pairs in insertion order (Python dict order), keys     *)
(* unique.  Confidences are in tenths (0.8 is 8).                          *)
(***************************************************************************)
EXTENDS Integers, Sequences, FiniteSets, TLC

VARIABLES
    available_databases,   \* DatabaseAgent.available_databases (set at construction)
    sql_generator,         \* DatabaseAgent._sql_generator is not None
    mongo_generator,       \* DatabaseAgent._mongo_generator is not None
    conversation_history,  \* DatabaseAgent.conversation_history
    pc,                    \* position of the current process_query call
    user_query,            \* its argument
    routing,               \* its local `routing`
    gen_result,            \* its local `gen_result`
    exec_result,           \* its local `exec_result`
    result,                \* its local `result`, the value it returns
    raised,                \* an exception left process_query
    llm_calls,             \* client.messages.create calls of this request
    tool_calls,            \* MCPManager.execute_tool calls of this request
    connector_calls,       \* connector execute_* calls of this request
    validated,             \* query objects the generator's validator accepted
    llm_response,          \* what client.messages.create answered in this request
    history_before,        \* conversation_history when this request began
    returned,              \* <<question, row_count>> of each call that returned
                           \* success = true since the last clear_history
    clears,                \* clear_history calls in a row, counted up to 2
    arg,                   \* input of a validator applied on its own
    verdict,               \* its output
    langfuse,              \* the tracing setup of the process
    tracer                 \* the QueryTracer of the current process_query call

vars == << available_databases, sql_generator, mongo_generator,
           conversation_history, pc, user_query, routing, gen_result,
           exec_result, result, raised, llm_calls, tool_calls,
           connector_calls, validated, llm_response, history_before,
           returned, clears, arg, verdict, langfuse, tracer >>

agent_vars == << available_databases, sql_generator, mongo_generator,
                 conversation_history, returned, clears, langfuse >>

request_vars == << pc, user_query, routing, gen_result, exec_result, result,
                   raised, llm_calls, tool_calls, connector_calls, validated,
                   llm_response, history_before, tracer >>

-----------------------------------------------------------------------------
(* Bounds of the model. *)

MaxHistory == 3      \* a request starts only while the history is shorter
MaxWords == 2        \* words per question when routing is applied on its own
MaxFrags == 3        \* fragments per SQL text when the validator is applied on its own
MaxWidth == 2        \* keys of the top-level mapping given to the document validator

-----------------------------------------------------------------------------
(* Text. *)

ToUpper ==
    "a" :> "A" @@ "b" :> "B" @@ "c" :> "C" @@ "d" :> "D" @@ "e" :> "E" @@
    "f" :> "F" @@ "g" :> "G" @@ "h" :> "H" @@ "i" :> "I" @@ "j" :> "J" @@
    "k" :> "K" @@ "l" :> "L" @@ "m" :> "M" @@ "n" :> "N" @@ "o" :> "O" @@
    "p" :> "P" @@ "q" :> "Q" @@ "r" :> "R" @@ "s" :> "S" @@ "t" :> "T" @@
    "u" :> "U" @@ "v" :> "V" @@ "w" :> "W" @@ "x" :> "X" @@ "y" :> "Y" @@
    "z" :> "Z"

ToLower ==
    "A" :> "a" @@ "B" :> "b" @@ "C" :> "c" @@ "D" :> "d" @@ "E" :> "e" @@
    "F" :> "f" @@ "G" :> "g" @@ "H" :> "h" @@ "I" :> "i" @@ "J" :> "j" @@
    "K" :> "k" @@ "L" :> "l" @@ "M" :> "m" @@ "N" :> "n" @@ "O" :> "o" @@
    "P" :> "p" @@ "Q" :> "q" @@ "R" :> "r" @@ "S" :> "s" @@ "T" :> "t" @@
    "U" :> "u" @@ "V" :> "v" @@ "W" :> "w" @@ "X" :> "x" @@ "Y" :> "y" @@
    "Z" :> "z"

CharAt(s, i) == SubSeq(s, i, i)

\* str.upper(): the first i characters converted, for i up to Len(s)
upper(s) ==
    LET up[i \in 0..Len(s)] ==
            IF i = 0 THEN ""
            ELSE up[i - 1] \o (IF CharAt(s, i) \in DOMAIN ToUpper
                               THEN ToUpper[CharAt(s, i)] ELSE CharAt(s, i))
    IN  up[Len(s)]

\* str.lower()
lower(s) ==
    LET low[i \in 0..Len(s)] ==
            IF i = 0 THEN ""
            ELSE low[i - 1] \o (IF CharAt(s, i) \in DOMAIN ToLower
                                THEN ToLower[CharAt(s, i)] ELSE CharAt(s, i))
    IN  low[Len(s)]

\* Python's `needle in hay` on str
Contains(hay, needle) ==
    \E i \in 1..(Len(hay) - Len(needle) + 1) :
        SubSeq(hay, i, i + Len(needle) - 1) = needle

\* str.count(c) for a one-character c
count(s, c) == Cardinality({i \in 1..Len(s) : CharAt(s, i) = c})

\* str.startswith
startswith(s, p) == Len(s) >= Len(p) /\ SubSeq(s, 1, Len(p)) = p

Whitespace == {" ", "\n", "\t"}

Min(S) == CHOOSE x \in S : \A y \in S : x <= y

\* the text from its first character that is no whitespace
lstrip(s) ==
    LET kept == {i \in 1..Len(s) : CharAt(s, i) \notin Whitespace}
    IN  IF kept = {} THEN "" ELSE SubSeq(s, Min(kept), Len(s))

\* the text up to its last character that is no whitespace
rstrip(s) ==
    LET kept == {i \in 1..Len(s) : CharAt(s, i) \notin Whitespace}
    IN  IF kept = {} THEN ""
        ELSE SubSeq(s, 1, CHOOSE i \in kept : \A j \in kept : j <= i)

\* str.strip()
strip(s) == rstrip(lstrip(s))

-----------------------------------------------------------------------------
(* Values. *)

None == [t |-> "null", v |-> ""]
Str(s) == [t |-> "str", v |-> s]
Num(n) == [t |-> "num", v |-> n]
Bool(b) == [t |-> "bool", v |-> b]
List(items) == [t |-> "list", v |-> items]
Dict(pairs) == [t |-> "dict", v |-> pairs]
KV(key, value) == [k |-> key, v |-> value]

\* Python truthiness: bool(x)
Truthy(x) ==
    CASE x.t = "null" -> FALSE
      [] x.t = "str"  -> x.v # ""
      [] x.t = "num"  -> x.v # 0
      [] x.t = "bool" -> x.v
      [] x.t = "list" -> x.v # <<>>
      [] x.t = "dict" -> x.v # <<>>

HasKey(d, key) == \E i \in 1..Len(d.v) : d.v[i].k = key

\* dict.get(key, default)
Get(d, key, default) ==
    IF HasKey(d, key)
    THEN d.v[CHOOSE i \in 1..Len(d.v) : d.v[i].k = key].v
    ELSE default

\* d[key] = value (an existing key keeps its place)
Set(d, key, value) ==
    IF HasKey(d, key)
    THEN Dict([i \in 1..Len(d.v) |->
                  IF d.v[i].k = key THEN KV(key, value) ELSE d.v[i]])
    ELSE Dict(Append(d.v, KV(key, value)))

-----------------------------------------------------------------------------
(* Fast routing: DatabaseAgent._fast_route. *)

mongo_keywords ==
    << "event", "events", "log", "logs", "session", "sessions",
       "click", "clicks", "page view", "pageview", "tracking",
       "analytics", "user activity", "behavior", "metric", "metrics" >>

postgres_keywords ==
    << "customer", "customers", "order", "orders", "product", "products",
       "sale", "sales", "revenue", "purchase", "purchases", "buyer",
       "inventory", "price", "quantity", "item", "items", "spent",
       "top-selling", "best selling", "order_items" >>

\* sum(1 for kw in keywords if kw in query_lower)
keyword_score(keywords, query_lower) ==
    Cardinality({i \in 1..Len(keywords) : Contains(query_lower, keywords[i])})

mongo_score(q) == keyword_score(mongo_keywords, lower(q))
postgres_score(q) == keyword_score(postgres_keywords, lower(q))

Route(db, conf) == [database |-> db, confidence |-> conf]

\* the chain with >= in its first test
route_by_score_ge(ms, ps, has_postgres, has_mongo) ==
    IF ms >= ps /\ has_mongo THEN Route("mongodb", 8)
    ELSE IF ps > 0 /\ has_postgres THEN Route("postgresql", 8)
    ELSE IF has_postgres THEN Route("postgresql", 6)
    ELSE IF has_mongo THEN Route("mongodb", 6)
    ELSE Route("postgresql", 5)

\* the chain with `mongo_score > postgres_score` alone as its first test
route_by_score_unavailable(ms, ps, has_postgres, has_mongo) ==
    IF ms > ps THEN Route("mongodb", 8)
    ELSE IF ps > 0 /\ has_postgres THEN Route("postgresql", 8)
    ELSE IF has_postgres THEN Route("postgresql", 6)
    ELSE IF has_mongo THEN Route("mongodb", 6)
    ELSE Route("postgresql", 5)

\* the if / elif chain on the scores and the availability flags
route_by_score(ms, ps, has_postgres, has_mongo) ==
    IF ms > ps /\ has_mongo THEN Route("mongodb", 8)
    ELSE IF ps > 0 /\ has_postgres THEN Route("postgresql", 8)
    ELSE IF has_postgres THEN Route("postgresql", 6)
    ELSE IF has_mongo THEN Route("mongodb", 6)
    ELSE Route("postgresql", 5)

\* _fast_route without user_query.lower()
fast_route_case_sensitive(q, available) ==
    route_by_score(keyword_score(mongo_keywords, q),
                   keyword_score(postgres_keywords, q),
                   "postgresql" \in available, "mongodb" \in available)

\* DatabaseAgent._fast_route
fast_route(q, available) ==
    route_by_score(mongo_score(q), postgres_score(q),
                   "postgresql" \in available, "mongodb" \in available)

-----------------------------------------------------------------------------
(* Safety validators: src/utils/helpers.py.                                *)
(* A call either returns [safe, reason] or raises; exc is None when it     *)
(* returned and the exception text when it raised.                         *)

blocked_sql_keywords ==
    << "DROP", "DELETE", "TRUNCATE", "UPDATE", "INSERT",
       "ALTER", "CREATE", "GRANT", "REVOKE", "EXEC",
       "EXECUTE", "MERGE", "CALL" >>

Verdict(safe, reason) == [safe |-> safe, reason |-> reason, exc |-> None]
Raises(text) == [safe |-> FALSE, reason |-> None, exc |-> Str(text)]

\* validate_sql_safety without sql.upper()
validate_sql_safety_case_sensitive(sql, blocked_keywords) ==
    LET hits == {i \in 1..Len(blocked_keywords) :
                    Contains(sql, upper(blocked_keywords[i]))}
    IN  IF hits # {}
        THEN Verdict(FALSE, Str("Query contains blocked keyword: "
                                   \o blocked_keywords[Min(hits)]))
        ELSE IF count(sql, ";") > 1
        THEN Verdict(FALSE, Str("Multiple SQL statements not allowed"))
        ELSE Verdict(TRUE, None)

\* the first keyword of the list found in the upper-cased text wins
validate_sql_safety(sql, blocked_keywords) ==
    LET sql_upper == upper(sql)
        hits == {i \in 1..Len(blocked_keywords) :
                    Contains(sql_upper, upper(blocked_keywords[i]))}
    IN  IF hits # {}
        THEN Verdict(FALSE, Str("Query contains blocked keyword: "
                                   \o blocked_keywords[Min(hits)]))
        ELSE IF count(sql, ";") > 1
        THEN Verdict(FALSE, Str("Multiple SQL statements not allowed"))
        ELSE Verdict(TRUE, None)

\* validate_sql_safety on any value: sql.upper() raises unless sql is a str
validate_sql_safety_of(sql, blocked_keywords) ==
    IF sql.t # "str"
    THEN Raises("AttributeError: object has no attribute 'upper'")
    ELSE validate_sql_safety(sql.v, blocked_keywords)

dangerous_operators == {"$where", "$function"}

RECURSIVE check_dict_from(_, _, _)
RECURSIVE check_list_from(_, _, _)

\* `for key, value in d.items()` from the i-th pair on: the reason of the
\* first dangerous key met, or None
check_dict_from(pairs, i, dangerous) ==
    IF i > Len(pairs) THEN None
    ELSE LET key == pairs[i].k
             value == pairs[i].v
         IN  IF key \in dangerous
             THEN Str("Query contains dangerous operator: " \o key)
             ELSE IF value.t = "dict"
             THEN LET r == check_dict_from(value.v, 1, dangerous)
                  IN  IF Truthy(r) THEN r
                      ELSE check_dict_from(pairs, i + 1, dangerous)
             ELSE IF value.t = "list"
             THEN LET r == check_list_from(value.v, 1, dangerous)
                  IN  IF Truthy(r) THEN r
                      ELSE check_dict_from(pairs, i + 1, dangerous)
             ELSE check_dict_from(pairs, i + 1, dangerous)

\* check_dict without the `elif isinstance(value, list)` branch
check_list_from_skipped(items, j, dangerous) == None

\* `for item in value` from the j-th item on: only dict items are entered
check_list_from(items, j, dangerous) ==
    IF j > Len(items) THEN None
    ELSE IF items[j].t = "dict"
    THEN LET r == check_dict_from(items[j].v, 1, dangerous)
         IN  IF Truthy(r) THEN r
             ELSE check_list_from(items, j + 1, dangerous)
    ELSE check_list_from(items, j + 1, dangerous)

\* check_dict(d): d.items() raises AttributeError unless d is a dict
check_dict(d) == check_dict_from(d.v, 1, dangerous_operators)

validate_mongo_safety(query) ==
    IF query.t # "dict"
    THEN Raises("AttributeError: object has no attribute 'items'")
    ELSE LET reason == check_dict(query)
         IN  IF Truthy(reason) THEN Verdict(FALSE, reason)
             ELSE Verdict(TRUE, None)

-----------------------------------------------------------------------------
(* LLM responses and their parsing.                                        *)
(* The outcome of client.messages.create is one of                         *)
(*   [kind |-> "raise", text |-> message]   the call raised                *)
(*   [kind |-> "json",  val  |-> value]     text that, after the cleanup   *)
(*                                          of _parse_response, json.loads *)
(*                                          decodes to val                 *)
(*   [kind |-> "text",  text |-> string]    text json.loads rejects        *)
(* A function that may raise returns [exc, val]: exc is None and val the   *)
(* returned value, or exc is the exception text.                           *)

Ok(val) == [exc |-> None, val |-> val]
Exc(text) == [exc |-> Str(text), val |-> None]

Max(S) == CHOOSE x \in S : \A y \in S : x >= y

\* The code fence, three backquotes, written with apostrophes: a TLA+ string
\* cannot hold a backquote.
Fence == "'''"

\* response.strip(); a leading fence drops the first and the last line
\* (the join of response.split(newline)[1:-1]), then a leading json tag is cut
clean_response(response) ==
    LET stripped == strip(response)
        nl == {i \in 1..Len(stripped) : CharAt(stripped, i) = "\n"}
        inner == IF Cardinality(nl) < 2 THEN ""
                 ELSE SubSeq(stripped, Min(nl) + 1, Max(nl) - 1)
    IN  IF startswith(stripped, Fence)
        THEN IF startswith(inner, "json")
             THEN SubSeq(inner, 5, Len(inner)) ELSE inner
        ELSE stripped

\* re.search(r'SELECT.*?(?:;|$)', text, IGNORECASE | DOTALL): from the first
\* "select" in any case to the first ';' after it (included), else to the
\* end of the text
regex_select(text) ==
    LET starts == {i \in 1..(Len(text) - 5) :
                      upper(SubSeq(text, i, i + 5)) = "SELECT"}
        from == Min(starts)
        semis == {j \in (from + 6)..Len(text) : CharAt(text, j) = ";"}
    IN  IF starts = {} THEN [found |-> FALSE, group |-> ""]
        ELSE [found |-> TRUE,
              group |-> SubSeq(text, from,
                               IF semis = {} THEN Len(text) ELSE Min(semis))]

\* sql_parse_response without the regex fallback of lines 155-162
sql_parse_response_no_fallback(response) ==
    IF response.kind = "json"
    THEN LET r == response.val
             sql == Get(r, "sql", None)
         IN  IF r.t # "dict"
             THEN Exc("AttributeError: object has no attribute 'get'")
             ELSE IF Truthy(sql)
             THEN IF sql.t # "str"
                  THEN Exc("AttributeError: object has no attribute 'strip'")
                  ELSE Ok(Set(Set(r, "sql", Str(strip(sql.v))),
                              "success", Bool(TRUE)))
             ELSE Ok(Set(r, "success", Bool(FALSE)))
    ELSE Ok(Dict(<< KV("success", Bool(FALSE)),
                    KV("error", Str("Failed to parse response: JSONDecodeError")),
                    KV("sql", None) >>))

\* SQLGenerator._parse_response
sql_parse_response(response) ==
    IF response.kind = "json"
    THEN LET r == response.val
             sql == Get(r, "sql", None)
         IN  IF r.t # "dict"
             THEN Exc("AttributeError: object has no attribute 'get'")
             ELSE IF Truthy(sql)
             THEN IF sql.t # "str"
                  THEN Exc("AttributeError: object has no attribute 'strip'")
                  ELSE Ok(Set(Set(r, "sql", Str(strip(sql.v))),
                              "success", Bool(TRUE)))
             ELSE Ok(Set(r, "success", Bool(FALSE)))
    ELSE LET sql_match == regex_select(clean_response(response.text))
         IN  IF sql_match.found
             THEN Ok(Dict(<< KV("success", Bool(TRUE)),
                             KV("sql", Str(strip(sql_match.group))),
                             KV("explanation", Str("Extracted from response")),
                             KV("tables_used", List(<<>>)) >>))
             ELSE Ok(Dict(<< KV("success", Bool(FALSE)),
                             KV("error", Str("Failed to parse response: JSONDecodeError")),
                             KV("sql", None) >>))

\* MongoQueryGenerator._parse_response
mongo_parse_response(response) ==
    IF response.kind = "json"
    THEN LET r == response.val
         IN  IF r.t # "dict"
             THEN Exc("AttributeError: object has no attribute 'get'")
             ELSE IF Truthy(Get(r, "query_type", None))
             THEN Ok(Set(r, "success", Bool(TRUE)))
             ELSE Ok(Set(r, "success", Bool(FALSE)))
    ELSE Ok(Dict(<< KV("success", Bool(FALSE)),
                    KV("error", Str("Failed to parse response: JSONDecodeError")) >>))

-----------------------------------------------------------------------------
(* Observability: LangfuseClient and QueryTracer.  The tracing setup is    *)
(* [enabled, fails]: enabled is settings.langfuse_enabled with the SDK     *)
(* importable; fails names the SDK call that raises whenever it is made    *)
(* ("none": every SDK call works).  A tracer is [root_span, current_span,  *)
(* calls]: the two spans, each None or a span, and the calls made on the   *)
(* root span (its start, its scores, its end) in the order they were made. *)
(* A tracer method returns [exc, val]: val is the tracer afterwards.       *)

TracingCalls ==
    { "client", "trace_start", "span_start", "span_end", "generation_start",
      "generation_end", "score", "trace_end", "flush" }

\* settings.langfuse_enabled is False unless both keys are configured
TracingDisabled == [enabled |-> FALSE, fails |-> "none"]

TracingSetups ==
    { TracingDisabled } \cup
    { [enabled |-> TRUE, fails |-> call] : call \in TracingCalls \cup { "none" } }

Span == Str("span")

\* QueryTracer.__init__
NewTracer == [root_span |-> None, current_span |-> None, calls |-> <<>>]

\* the tracer after one more call on its root span went out to the SDK
called(tr, call) == [tr EXCEPT !.calls = Append(@, call)]

\* a call into the Langfuse SDK: it returns val or raises
sdk_call(lf, call, val) ==
    IF lf.fails = call THEN [exc |-> Str("LangfuseError: " \o call), val |-> val]
    ELSE [exc |-> None, val |-> val]

\* `except Exception as e: print(...)`: the failure is printed and the
\* method goes on with its fall-back value
caught(outcome, fallback) ==
    IF Truthy(outcome.exc) THEN [exc |-> None, val |-> fallback] ELSE outcome

\* LangfuseClient.is_enabled; the client property builds Langfuse() on its
\* first use and remembers a failed construction
langfuse_is_enabled(lf) ==
    lf.enabled /\ caught(sdk_call(lf, "client", Str("client")), None).val # None

\* LangfuseClient.start_span
langfuse_start_span(lf) ==
    IF ~langfuse_is_enabled(lf) THEN [exc |-> None, val |-> None]
    ELSE caught(sdk_call(lf, "trace_start", Span), None)

\* LangfuseClient.end_span
langfuse_end_span(lf, span) ==
    IF span # None THEN caught(sdk_call(lf, "trace_end", None), None)
    ELSE [exc |-> None, val |-> None]

\* LangfuseClient.start_generation
langfuse_start_generation(lf, parent_span) ==
    IF parent_span = None THEN [exc |-> None, val |-> None]
    ELSE caught(sdk_call(lf, "generation_start", Str("generation")), None)

\* langfuse_end_generation without its try/except
langfuse_end_generation_unguarded(lf, generation) ==
    IF generation # None THEN sdk_call(lf, "generation_end", None)
    ELSE [exc |-> None, val |-> None]

\* LangfuseClient.end_generation
langfuse_end_generation(lf, generation) ==
    IF generation # None THEN caught(sdk_call(lf, "generation_end", None), None)
    ELSE [exc |-> None, val |-> None]

\* LangfuseClient.flush
langfuse_flush(lf) ==
    IF langfuse_is_enabled(lf) THEN caught(sdk_call(lf, "flush", None), None)
    ELSE [exc |-> None, val |-> None]

\* QueryTracer.start_trace
QueryTracer_start_trace(lf, tr) ==
    IF langfuse_is_enabled(lf)
    THEN LET span == langfuse_start_span(lf)
             started == called(tr, "trace_start")
         IN  IF Truthy(span.exc) THEN [exc |-> span.exc, val |-> started]
             ELSE [exc |-> None,
                   val |-> [started EXCEPT !.root_span = span.val]]
    ELSE [exc |-> None, val |-> tr]

\* QueryTracer.start_span
QueryTracer_start_span(lf, tr) ==
    IF langfuse_is_enabled(lf) /\ Truthy(tr.root_span)
    THEN caught(sdk_call(lf, "span_start", [tr EXCEPT !.current_span = Span]), tr)
    ELSE [exc |-> None, val |-> tr]

\* QueryTracer.end_span
QueryTracer_end_span(lf, tr) ==
    IF Truthy(tr.current_span)
    THEN LET ended == caught(sdk_call(lf, "span_end", tr), tr)
         IN  IF Truthy(ended.exc) THEN ended
             ELSE [exc |-> None, val |-> [tr EXCEPT !.current_span = None]]
    ELSE [exc |-> None, val |-> tr]

\* QueryTracer.log_generation
QueryTracer_log_generation(lf, tr) ==
    IF langfuse_is_enabled(lf) /\ Truthy(tr.root_span)
    THEN LET gen == langfuse_start_generation(lf, tr.root_span)
         IN  IF Truthy(gen.exc) THEN [exc |-> gen.exc, val |-> tr]
             ELSE LET ended == langfuse_end_generation(lf, gen.val)
                  IN  [exc |-> ended.exc, val |-> tr]
    ELSE [exc |-> None, val |-> tr]

\* QueryTracer.log_score
QueryTracer_log_score(lf, tr, value) ==
    IF Truthy(tr.root_span)
    THEN caught(sdk_call(lf, "score", called(tr, "score " \o value)),
                called(tr, "score " \o value))
    ELSE [exc |-> None, val |-> tr]

\* QueryTracer.end
QueryTracer_end(lf, tr) ==
    LET ended == IF Truthy(tr.root_span) THEN langfuse_end_span(lf, tr.root_span)
                 ELSE [exc |-> None, val |-> None]
        after == IF Truthy(tr.root_span) THEN called(tr, "trace_end") ELSE tr
    IN  IF Truthy(ended.exc) THEN [exc |-> ended.exc, val |-> after]
        ELSE [exc |-> langfuse_flush(lf).exc, val |-> after]

tracer_call(lf, tr, method) ==
    CASE method = "start_trace" -> QueryTracer_start_trace(lf, tr)
      [] method = "start_span" -> QueryTracer_start_span(lf, tr)
      [] method = "end_span" -> QueryTracer_end_span(lf, tr)
      [] method = "log_generation" -> QueryTracer_log_generation(lf, tr)
      [] method = "log_score(0.0)" -> QueryTracer_log_score(lf, tr, "0.0")
      [] method = "log_score(1.0)" -> QueryTracer_log_score(lf, tr, "1.0")
      [] method = "end" -> QueryTracer_end(lf, tr)

\* consecutive tracer statements: the first one that raises ends the run
tracer_calls(lf, tr, methods) ==
    LET run[i \in 0..Len(methods)] ==
            IF i = 0 THEN [exc |-> None, val |-> tr]
            ELSE IF Truthy(run[i - 1].exc) THEN run[i - 1]
            ELSE tracer_call(lf, run[i - 1].val, methods[i])
    IN  run[Len(methods)]

-----------------------------------------------------------------------------
(* Generators.  generate returns [val, checked, llm, exc]: the result      *)
(* dict, the query objects its validator accepted, the LLM calls it made,  *)
(* and the exception that left it (None when it returned).                 *)

Generated(val, checked) ==
    [val |-> val, checked |-> checked, llm |-> 1, exc |-> None]

\* an exception leaves generate: raised before the try block (no LLM call
\* yet) or inside the except handler
GenerateRaises(e, llm) == [val |-> None, checked |-> <<>>, llm |-> llm, exc |-> e]

sql_failure(error) ==
    Dict(<< KV("success", Bool(FALSE)), KV("error", error), KV("sql", None) >>)

mongo_failure(error) ==
    Dict(<< KV("success", Bool(FALSE)), KV("error", error) >>)

\* sql_safety_gate without the call of validate_sql_safety
sql_safety_gate_skipped(parsed) == Generated(parsed, <<>>)

\* SQLGenerator.generate, lines 57-65: the safety gate on a parsed result
sql_safety_gate(parsed) ==
    IF Truthy(Get(parsed, "success", None)) /\ Truthy(Get(parsed, "sql", None))
    THEN LET safety == validate_sql_safety(Get(parsed, "sql", None).v,
                                           blocked_sql_keywords)
         IN  IF ~safety.safe
             THEN Generated(sql_failure(safety.reason), <<>>)
             ELSE Generated(parsed, << Get(parsed, "sql", None) >>)
    ELSE Generated(parsed, <<>>)

\* SQLGenerator.generate, lines 36-70: the try block.  [exc, gen, tr]: the
\* exception the block ends with (None when it returns gen) and the tracer
sql_generate_try(response, lf, tr) ==
    IF response.kind = "raise"
    THEN [exc |-> Str(response.text), gen |-> None, tr |-> tr]
    ELSE CHOOSE out \in
           { IF Truthy(parsed.exc)
             THEN [exc |-> parsed.exc, gen |-> None, tr |-> tr]
             ELSE LET logged == tracer_calls(lf, tr, << "log_generation" >>)
                  IN  IF Truthy(logged.exc)
                      THEN [exc |-> logged.exc, gen |-> None, tr |-> logged.val]
                      ELSE LET gated == sql_safety_gate(parsed.val)
                               closed == tracer_calls(lf, logged.val,
                                                      << "end_span", "end" >>)
                           IN  IF Truthy(closed.exc)
                               THEN [exc |-> closed.exc, gen |-> None,
                                     tr |-> closed.val]
                               ELSE [exc |-> None, gen |-> gated,
                                     tr |-> closed.val]
             : parsed \in {sql_parse_response(response)} } : TRUE

\* sql_generate without its `except Exception`: what the try block raises
\* leaves generate
sql_generate_uncaught(response, lf) ==
    CHOOSE out \in
      { IF Truthy(body.exc) THEN GenerateRaises(body.exc, 1) ELSE body.gen
        : body \in {sql_generate_try(response, lf, NewTracer)} } : TRUE

\* SQLGenerator.generate: the tracer is opened, the try block runs, and
\* `except Exception` closes the tracer and returns the failure
sql_generate(response, lf) ==
    LET opened == tracer_calls(lf, NewTracer, << "start_trace", "start_span" >>)
    IN  IF Truthy(opened.exc) THEN GenerateRaises(opened.exc, 0)
        ELSE CHOOSE out \in
               { IF ~Truthy(body.exc) THEN body.gen
                 ELSE LET closed == tracer_calls(lf, body.tr,
                                                 << "end_span", "end" >>)
                      IN  IF Truthy(closed.exc) THEN GenerateRaises(closed.exc, 1)
                          ELSE Generated(sql_failure(body.exc), <<>>)
                 : body \in {sql_generate_try(response, lf, opened.val)} } : TRUE

RECURSIVE mongo_check_stages(_, _, _, _)
\* `for stage in query_to_check`: the first unsafe stage replaces the result
\* and breaks; a stage that is not a dict makes validate_mongo_safety raise
mongo_check_stages(parsed, stages, i, checked) ==
    IF i > Len(stages) THEN Generated(parsed, checked)
    ELSE LET safety == validate_mongo_safety(stages[i])
         IN  IF Truthy(safety.exc)
             THEN Generated(mongo_failure(safety.exc), <<>>)
             ELSE IF ~safety.safe
             THEN Generated(mongo_failure(safety.reason), <<>>)
             ELSE mongo_check_stages(parsed, stages, i + 1,
                                     Append(checked, stages[i]))

\* the object the generator validates:
\* result.get("filter", result.get("pipeline", {}))
query_to_check(parsed) ==
    Get(parsed, "filter", Get(parsed, "pipeline", Dict(<<>>)))

\* MongoQueryGenerator.generate, lines 56-74: the safety gate
mongo_safety_gate(parsed) ==
    IF Truthy(Get(parsed, "success", None))
    THEN LET q == query_to_check(parsed)
         IN  IF q.t = "list"
             THEN mongo_check_stages(parsed, q.v, 1, <<>>)
             ELSE LET safety == validate_mongo_safety(q)
                  IN  IF Truthy(safety.exc)
                      THEN Generated(mongo_failure(safety.exc), <<>>)
                      ELSE IF ~safety.safe
                      THEN Generated(mongo_failure(safety.reason), <<>>)
                      ELSE Generated(parsed, << q >>)
    ELSE Generated(parsed, <<>>)

\* MongoQueryGenerator.generate, lines 35-79: the try block
mongo_generate_try(response, lf, tr) ==
    IF response.kind = "raise"
    THEN [exc |-> Str(response.text), gen |-> None, tr |-> tr]
    ELSE CHOOSE out \in
           { IF Truthy(parsed.exc)
             THEN [exc |-> parsed.exc, gen |-> None, tr |-> tr]
             ELSE LET logged == tracer_calls(lf, tr, << "log_generation" >>)
                  IN  IF Truthy(logged.exc)
                      THEN [exc |-> logged.exc, gen |-> None, tr |-> logged.val]
                      ELSE LET gated == mongo_safety_gate(parsed.val)
                               closed == tracer_calls(lf, logged.val,
                                                      << "end_span", "end" >>)
                           IN  IF Truthy(closed.exc)
                               THEN [exc |-> closed.exc, gen |-> None,
                                     tr |-> closed.val]
                               ELSE [exc |-> None, gen |-> gated,
                                     tr |-> closed.val]
             : parsed \in {mongo_parse_response(response)} } : TRUE

\* MongoQueryGenerator.generate
mongo_generate(response, lf) ==
    LET opened == tracer_calls(lf, NewTracer, << "start_trace", "start_span" >>)
    IN  IF Truthy(opened.exc) THEN GenerateRaises(opened.exc, 0)
        ELSE CHOOSE out \in
               { IF ~Truthy(body.exc) THEN body.gen
                 ELSE LET closed == tracer_calls(lf, body.tr,
                                                 << "end_span", "end" >>)
                      IN  IF Truthy(closed.exc) THEN GenerateRaises(closed.exc, 1)
                          ELSE Generated(mongo_failure(body.exc), <<>>)
                 : body \in {mongo_generate_try(response, lf, opened.val)} } : TRUE

-----------------------------------------------------------------------------
(* Execution dispatch: MCPManager.execute_tool, the MCP clients' handlers  *)
(* and the connectors.  A connector call ends as the environment decides:  *)
(*   [ok |-> TRUE,  rows |-> n]       the store answered with n rows       *)
(*   [ok |-> FALSE, late |-> FALSE]   it failed before the query was sent  *)
(*   [ok |-> FALSE, late |-> TRUE]    the store rejected the query         *)
(* The connectors catch every exception and return a failure dict.         *)

max_query_rows == 1000

Rows(n) == List([i \in 1..n |-> Num(i)])

exec_failure(text) ==
    Dict(<< KV("success", Bool(FALSE)), KV("error", Str(text)) >>)

\* the dict both connectors return
connector_result(conn) ==
    IF conn.ok
    THEN Dict(<< KV("success", Bool(TRUE)), KV("data", Rows(conn.rows)),
                 KV("row_count", Num(conn.rows)) >>)
    ELSE Dict(<< KV("success", Bool(FALSE)), KV("error", Str("store error")),
                 KV("data", List(<<>>)), KV("row_count", Num(0)) >>)

\* what a dispatch step hands back: the exception that left it (or None),
\* the dict it returned, the execute_tool and connector calls it made, and
\* the pipeline object as the connector left it
Dispatched(exc, val, tools, conns, pipeline) ==
    [exc |-> exc, val |-> val, tools |-> tools, conns |-> conns,
     pipeline |-> pipeline]

\* _is_safe_query without the `sql.count(';') > 1` test
postgres_is_safe_query_keywords_only(sql) ==
    \A i \in 1..Len(blocked_sql_keywords) :
        ~Contains(upper(sql), upper(blocked_sql_keywords[i]))

\* PostgresMCPClient._is_safe_query
postgres_is_safe_query(sql) ==
    /\ \A i \in 1..Len(blocked_sql_keywords) :
          ~Contains(upper(sql), upper(blocked_sql_keywords[i]))
    /\ ~(count(sql, ";") > 1)

mcp_dangerous_operators == {"$where", "$function", "$accumulator"}

\* _is_safe_query looking at the keys of the query itself only
mongodb_is_safe_query_top_level(query) ==
    IF query.t # "dict"
    THEN Exc("AttributeError: object has no attribute 'items'")
    ELSE Ok(Bool(\A i \in 1..Len(query.v) :
                    query.v[i].k \notin mcp_dangerous_operators))

\* MongoDBMCPClient._is_safe_query; check_dict raises unless query is a dict
mongodb_is_safe_query(query) ==
    IF query.t # "dict"
    THEN Exc("AttributeError: object has no attribute 'items'")
    ELSE Ok(Bool(\A pairs \in {query.v} :
                    ~Truthy(check_dict_from(pairs, 1, mcp_dangerous_operators))))

\* PostgresMCPClient._handle_query
postgres_handle_query(arguments, conn) ==
    LET sql == Get(arguments, "sql", Str(""))
        call == [tool |-> "postgres_query", args |-> arguments]
    IN  IF ~Truthy(sql)
        THEN Dispatched(None, exec_failure("No SQL query provided"),
                        << call >>, <<>>, None)
        ELSE IF sql.t # "str"
        THEN Dispatched(Str("AttributeError: object has no attribute 'upper'"),
                        None, << call >>, <<>>, None)
        ELSE IF ~postgres_is_safe_query(sql.v)
        THEN Dispatched(None,
                        exec_failure("Query contains blocked keywords or operations"),
                        << call >>, <<>>, None)
        ELSE Dispatched(None, connector_result(conn), << call >>,
                        << [op |-> "execute_query", query |-> sql] >>, None)

\* MongoDBMCPClient._handle_find
mongodb_handle_find(arguments, conn) ==
    LET collection == Get(arguments, "collection", Str(""))
        filter_query == Get(arguments, "filter", Dict(<<>>))
        safe == mongodb_is_safe_query(filter_query)
        call == [tool |-> "mongodb_find", args |-> arguments]
    IN  IF ~Truthy(collection)
        THEN Dispatched(None, exec_failure("No collection specified"),
                        << call >>, <<>>, None)
        ELSE IF Truthy(safe.exc)
        THEN Dispatched(safe.exc, None, << call >>, <<>>, None)
        ELSE IF ~safe.val.v
        THEN Dispatched(None, exec_failure("Query contains unsafe operators"),
                        << call >>, <<>>, None)
        ELSE Dispatched(None, connector_result(conn), << call >>,
                        << [op |-> "execute_find", query |-> filter_query] >>,
                        None)

\* `for stage in pipeline: if not self._is_safe_query(stage)`: "unsafe",
\* "raise" (a stage that is not a dict) or "safe"
RECURSIVE pipeline_check(_, _)
pipeline_check(stages, i) ==
    IF i > Len(stages) THEN "safe"
    ELSE LET safe == mongodb_is_safe_query(stages[i])
         IN  IF Truthy(safe.exc) THEN "raise"
             ELSE IF ~safe.val.v THEN "unsafe"
             ELSE pipeline_check(stages, i + 1)

\* execute_aggregate without the has_limit test
append_limit_always(pipeline, limit) ==
    List(Append(pipeline.v,
                Dict(<< KV("$limit", IF Truthy(limit) THEN limit
                                     ELSE Num(max_query_rows)) >>)))

\* MongoDBConnector.execute_aggregate, lines 182-187: limit or the maximum,
\* and a {$limit: limit} stage appended to the caller's list unless some
\* stage has a $limit key
append_limit(pipeline, limit) ==
    LET lim == IF Truthy(limit) THEN limit ELSE Num(max_query_rows)
        has_limit == \E i \in 1..Len(pipeline.v) : HasKey(pipeline.v[i], "$limit")
    IN  IF has_limit THEN pipeline
        ELSE List(Append(pipeline.v, Dict(<< KV("$limit", lim) >>)))

\* _handle_aggregate without the `if not pipeline` test
mongodb_handle_aggregate_any_pipeline(arguments, conn) ==
    LET collection == Get(arguments, "collection", Str(""))
        pipeline == Get(arguments, "pipeline", List(<<>>))
        call == [tool |-> "mongodb_aggregate", args |-> arguments]
    IN  IF ~Truthy(collection)
        THEN Dispatched(None, exec_failure("No collection specified"),
                        << call >>, <<>>, None)
        ELSE IF pipeline.t # "list"
        THEN Dispatched(Str("AttributeError: object has no attribute 'items'"),
                        None, << call >>, <<>>, None)
        ELSE IF pipeline_check(pipeline.v, 1) = "raise"
        THEN Dispatched(Str("AttributeError: object has no attribute 'items'"),
                        None, << call >>, <<>>, None)
        ELSE IF pipeline_check(pipeline.v, 1) = "unsafe"
        THEN Dispatched(None, exec_failure("Pipeline contains unsafe operators"),
                        << call >>, <<>>, None)
        ELSE Dispatched(None, connector_result(conn), << call >>,
                        << [op |-> "execute_aggregate", query |-> pipeline] >>,
                        IF conn.ok \/ conn.late
                        THEN append_limit(pipeline, Get(arguments, "limit", None))
                        ELSE pipeline)

\* MongoDBMCPClient._handle_aggregate.  A pipeline that is not a list is
\* iterated all the same and its first element is no dict: the check raises.
mongodb_handle_aggregate(arguments, conn) ==
    LET collection == Get(arguments, "collection", Str(""))
        pipeline == Get(arguments, "pipeline", List(<<>>))
        checked == IF pipeline.t = "list" THEN pipeline_check(pipeline.v, 1)
                   ELSE "raise"
        call == [tool |-> "mongodb_aggregate", args |-> arguments]
        sent == IF conn.ok \/ conn.late
                THEN append_limit(pipeline, Get(arguments, "limit", None))
                ELSE pipeline
    IN  IF ~Truthy(collection)
        THEN Dispatched(None, exec_failure("No collection specified"),
                        << call >>, <<>>, None)
        ELSE IF ~Truthy(pipeline)
        THEN Dispatched(None, exec_failure("No pipeline specified"),
                        << call >>, <<>>, None)
        ELSE IF checked = "raise"
        THEN Dispatched(Str("AttributeError: object has no attribute 'items'"),
                        None, << call >>, <<>>, None)
        ELSE IF checked = "unsafe"
        THEN Dispatched(None, exec_failure("Pipeline contains unsafe operators"),
                        << call >>, <<>>, None)
        ELSE Dispatched(None, connector_result(conn), << call >>,
                        << [op |-> "execute_aggregate", query |-> pipeline] >>,
                        sent)

\* the handlers that read the store's metadata (_handle_schema,
\* _handle_tables, _handle_collections, and _handle_table_info /
\* _handle_collection_info once a name is given): one connector call that is
\* no query, its exception caught
metadata_tools ==
    {"postgres_schema", "postgres_tables", "postgres_table_info",
     "mongodb_schema", "mongodb_collections", "mongodb_collection_info"}

handle_metadata(tool_name, arguments, conn) ==
    LET call == [tool |-> tool_name, args |-> arguments]
        name == IF tool_name = "postgres_table_info"
                THEN Get(arguments, "table_name", Str(""))
                ELSE Get(arguments, "collection_name", Str(""))
    IN  IF tool_name = "postgres_table_info" /\ ~Truthy(name)
        THEN Dispatched(None, exec_failure("No table name provided"),
                        << call >>, <<>>, None)
        ELSE IF tool_name = "mongodb_collection_info" /\ ~Truthy(name)
        THEN Dispatched(None, exec_failure("No collection name provided"),
                        << call >>, <<>>, None)
        ELSE Dispatched(None,
                        IF conn.ok
                        THEN Dict(<< KV("success", Bool(TRUE)),
                                     KV("data", Dict(<<>>)) >>)
                        ELSE exec_failure("store error"),
                        << call >>, << [op |-> "metadata", query |-> None] >>,
                        None)

\* MCPManager.execute_tool, through the client's handler table.  The agent
\* builds the manager with both URLs set, so both clients exist.
\* (the caller builds the arguments dict once: a names that value)
execute_tool(tool_name, arguments, conn) ==
    IF tool_name \in metadata_tools
    THEN handle_metadata(tool_name, arguments, conn)
    ELSE IF tool_name \notin {"postgres_query", "mongodb_find", "mongodb_aggregate"}
    THEN Dispatched(None, exec_failure("Unknown tool: " \o tool_name),
                    <<>>, <<>>, None)
    ELSE CHOOSE outcome \in
            {IF tool_name = "postgres_query" THEN postgres_handle_query(a, conn)
             ELSE IF tool_name = "mongodb_find" THEN mongodb_handle_find(a, conn)
             ELSE mongodb_handle_aggregate(a, conn) : a \in {arguments}} : TRUE

\* f"{value}" of a None, str, int or bool
format(value) ==
    CASE value.t = "null" -> "None"
      [] value.t = "str"  -> value.v
      [] value.t = "num"  -> ToString(value.v)
      [] value.t = "bool" -> IF value.v THEN "True" ELSE "False"

NotDispatched(text) == Dispatched(None, exec_failure(text), <<>>, <<>>, None)

\* DatabaseAgent._execute_query
execute_query(database, gen, conn) ==
    IF database = "postgresql"
    THEN LET sql == Get(gen, "sql", None)
         IN  IF ~Truthy(sql) THEN NotDispatched("No SQL query generated")
             ELSE execute_tool("postgres_query",
                               Dict(<< KV("sql", sql) >>), conn)
    ELSE IF database = "mongodb"
    THEN LET query_type == Get(gen, "query_type", None)
             collection == Get(gen, "collection", None)
         IN  IF ~Truthy(collection) THEN NotDispatched("No collection specified")
             ELSE IF query_type = Str("find")
             THEN execute_tool("mongodb_find",
                      Dict(<< KV("collection", collection),
                              KV("filter", Get(gen, "filter", Dict(<<>>))),
                              KV("projection", Get(gen, "projection", None)),
                              KV("sort", Get(gen, "sort", None)),
                              KV("limit", Get(gen, "limit", Num(max_query_rows))) >>),
                      conn)
             ELSE IF query_type = Str("aggregate")
             THEN execute_tool("mongodb_aggregate",
                      Dict(<< KV("collection", collection),
                              KV("pipeline", Get(gen, "pipeline", List(<<>>))),
                              KV("limit", Get(gen, "limit", Num(max_query_rows))) >>),
                      conn)
             ELSE NotDispatched("Unknown query type: " \o format(query_type))
    ELSE NotDispatched("Unknown database: " \o database)

-----------------------------------------------------------------------------
(* Inputs of the model. *)

Databases == {"postgresql", "mongodb"}

Questions ==
    { "show all customers",      \* relational keywords only
      "Events today",            \* document keywords only
      "customer event",          \* one of each: a tie
      "hello" }                  \* no keyword

RowCounts == {0, 2}

ConnOutcomes ==
    [ok : {TRUE}, rows : RowCounts, late : {FALSE}]
        \cup [ok : {FALSE}, rows : {0}, late : BOOLEAN]

Json(val) == [kind |-> "json", val |-> val, text |-> ""]
Text(text) == [kind |-> "text", val |-> None, text |-> text]
CallFails(text) == [kind |-> "raise", val |-> None, text |-> text]

\* what the LLM may answer to the SQL prompt
SqlResponses ==
    { CallFails("APIConnectionError"),
      Json(Dict(<< KV("sql", Str("SELECT * FROM customers LIMIT 100")),
                   KV("explanation", Str("All customers")),
                   KV("tables_used", List(<< Str("customers") >>)) >>)),
      Json(Dict(<< KV("sql", Str("SELECT id FROM orders \n")),
                   KV("explanation", Str("Order ids")) >>)),
      Json(Dict(<< KV("sql", Str("DELETE FROM orders")) >>)),
      Json(Dict(<< KV("sql", Str(" SELECT 1; SELECT 2; ")) >>)),
      Json(Dict(<< KV("sql", Str("select updated_at from orders")) >>)),
      Json(Dict(<< KV("sql", None), KV("error", Str("No such table")),
                   KV("suggestion", Str("Ask about customers")) >>)),
      Json(Dict(<< KV("sql", None), KV("error", None) >>)),
      Json(Dict(<< KV("sql", Str("  ")) >>)),
      Json(Dict(<< KV("sql", Str("")), KV("error", Str("Cannot answer")) >>)),
      Json(Dict(<< KV("sql", Num(5)) >>)),
      Json(List(<< Num(1) >>)),
      Text("Here you go: select id from customers; drop table customers"),
      Text("'''sql\nSELECT created_at FROM orders\n'''"),
      Text("'''SELECT 1'''"),
      Text("I cannot answer that") }

Stage(key, value) == Dict(<< KV(key, value) >>)
Active == Stage("status", Str("active"))

\* what the LLM may answer to the MongoDB prompt
MongoResponses ==
    { CallFails("APIConnectionError"),
      Json(Dict(<< KV("query_type", Str("find")), KV("collection", Str("events")),
                   KV("filter", Active), KV("limit", Num(100)) >>)),
      Json(Dict(<< KV("query_type", Str("find")), KV("collection", Str("events")),
                   KV("filter", Stage("$where", Str("this.a > 1"))) >>)),
      Json(Dict(<< KV("query_type", Str("find")), KV("filter", Active) >>)),
      Json(Dict(<< KV("query_type", Str("find")), KV("collection", Str("events")),
                   KV("filter", None) >>)),
      Json(Dict(<< KV("query_type", Str("find")), KV("collection", Str("events")),
                   KV("filter", List(<< Active >>)) >>)),
      Json(Dict(<< KV("query_type", Str("aggregate")), KV("collection", Str("events")),
                   KV("pipeline", List(<< Stage("$match", Active),
                                          Stage("$group", Stage("_id", Str("$type"))),
                                          Stage("$limit", Num(100)) >>)) >>)),
      Json(Dict(<< KV("query_type", Str("aggregate")), KV("collection", Str("events")),
                   KV("pipeline", List(<< Stage("$match", Active) >>)) >>)),
      Json(Dict(<< KV("query_type", Str("aggregate")), KV("collection", Str("events")),
                   KV("pipeline", List(<< Stage("$match", Active),
                                          Stage("$limit", Num(10)),
                                          Stage("$addFields",
                                                Stage("x", Stage("$function", Str("f")))) >>)) >>)),
      Json(Dict(<< KV("query_type", Str("aggregate")), KV("collection", Str("events")),
                   KV("filter", Dict(<<>>)),
                   KV("pipeline", List(<< Stage("$match",
                                                Stage("$where", Str("this.a > 1"))) >>)) >>)),
      Json(Dict(<< KV("query_type", Str("aggregate")), KV("collection", Str("events")),
                   KV("pipeline", List(<< Stage("$group",
                                                Stage("total", Stage("$accumulator", Str("f")))) >>)) >>)),
      Json(Dict(<< KV("query_type", Str("aggregate")), KV("collection", Str("events")),
                   KV("pipeline", List(<<>>)) >>)),
      Json(Dict(<< KV("query_type", Str("count")), KV("collection", Str("events")) >>)),
      Json(Dict(<< KV("query_type", Num(7)), KV("collection", Str("events")) >>)),
      Json(Dict(<< KV("query_type", None), KV("error", Str("No such collection")),
                   KV("suggestion", Str("Ask about events")) >>)),
      Json(Dict(<< KV("query_type", Str("")), KV("error", Str("Cannot answer")) >>)),
      Json(Str("find")),
      Text("I cannot answer that") }

-----------------------------------------------------------------------------
(* The orchestrator: DatabaseAgent. *)

\* the result dict of process_query, lines 80-90 (row_count is absent, here
\* None, until line 129 sets it)
NewResult(q) ==
    [success |-> FALSE, query |-> q, database |-> None, generated_query |-> None,
     data |-> List(<<>>), row_count |-> None, explanation |-> None,
     error |-> None]

NoRoute == [database |-> "", confidence |-> 0]

Idle ==
    /\ pc = "idle"
    /\ user_query = ""
    /\ routing = NoRoute
    /\ gen_result = None
    /\ exec_result = None
    /\ result = None
    /\ raised = FALSE
    /\ llm_calls = 0
    /\ tool_calls = <<>>
    /\ connector_calls = <<>>
    /\ validated = <<>>
    /\ llm_response = None
    /\ history_before = <<>>
    /\ tracer = NewTracer

\* DatabaseAgent.__init__: the stores that answered test_connection, no
\* generator yet, an empty history; no Langfuse keys are configured
Init ==
    /\ available_databases \in SUBSET Databases
    /\ sql_generator = FALSE
    /\ mongo_generator = FALSE
    /\ conversation_history = <<>>
    /\ returned = <<>>
    /\ clears = 0
    /\ Idle
    /\ arg = None
    /\ verdict = None
    /\ langfuse = TracingDisabled

\* process_query without its `except Exception`: the exception leaves the call
process_query_reraise(res, e) ==
    [result |-> res, raised |-> TRUE]

\* process_query, lines 149-151: `except Exception` keeps the exception
\* inside the call and reports its text
process_query_except(res, e) ==
    [result |-> [res EXCEPT !.error = e], raised |-> FALSE]

\* process_query, lines 149-154, on an exception e raised inside the try
\* block: the handler reports it and logs the score, `finally` ends the trace
handle_exception(res, e, lf, tr) ==
    LET h == process_query_except(res, e)
        closed == tracer_calls(lf, tr, << "log_score(0.0)", "end" >>)
    IN  [result |-> h.result, raised |-> h.raised \/ Truthy(closed.exc),
         tracer |-> closed.val]

\* the early `return result` of lines 109-111 and 123-125, inside the try
\* block: score, end, and `finally` ends the trace again
early_return(res, lf, tr) ==
    LET scored == tracer_calls(lf, tr, << "log_score(0.0)", "end" >>)
    IN  IF Truthy(scored.exc)
        THEN handle_exception(res, scored.exc, lf, scored.val)
        ELSE LET ended == tracer_calls(lf, scored.val, << "end" >>)
             IN  [result |-> res, raised |-> Truthy(ended.exc),
                  tracer |-> ended.val]

\* process_query, lines 77-90: the tracer is opened before the try block
start_request(q, lf) ==
    LET opened == tracer_calls(lf, NewTracer, << "start_trace" >>)
    IN  [result |-> NewResult(q), raised |-> Truthy(opened.exc),
         pc |-> IF Truthy(opened.exc) THEN "done" ELSE "start",
         tracer |-> opened.val]

StartRequest(q) ==
    /\ pc = "idle"
    /\ Len(conversation_history) < MaxHistory
    /\ \E o \in {start_request(q, langfuse)} :
           /\ pc' = o.pc
           /\ result' = o.result
           /\ raised' = o.raised
           /\ tracer' = o.tracer
    /\ user_query' = q
    /\ history_before' = conversation_history
    /\ clears' = 0
    /\ UNCHANGED << routing, gen_result, exec_result, llm_calls,
                    tool_calls, connector_calls, validated, llm_response >>
    /\ UNCHANGED << available_databases, sql_generator, mongo_generator,
                    conversation_history, returned, arg, verdict, langfuse >>

\* process_query, lines 94-97
route_step(res, q, available, lf, tr) ==
    LET span == tracer_calls(lf, tr, << "start_span" >>)
    IN  IF Truthy(span.exc)
        THEN LET h == handle_exception(res, span.exc, lf, span.val)
             IN  [routing |-> NoRoute, result |-> h.result, raised |-> h.raised,
                  pc |-> "done", tracer |-> h.tracer]
        ELSE CHOOSE out \in
               { LET routed == [res EXCEPT !.database = Str(route.database)]
                     ended == tracer_calls(lf, span.val, << "end_span" >>)
                 IN  IF Truthy(ended.exc)
                     THEN LET h == handle_exception(routed, ended.exc, lf,
                                                    ended.val)
                          IN  [routing |-> route, result |-> h.result,
                               raised |-> h.raised, pc |-> "done",
                               tracer |-> h.tracer]
                     ELSE [routing |-> route, result |-> routed,
                           raised |-> FALSE, pc |-> "routed",
                           tracer |-> ended.val]
                 : route \in {fast_route(q, available)} } : TRUE

RouteStep ==
    /\ pc = "start"
    /\ \E o \in {route_step(result, user_query, available_databases,
                            langfuse, tracer)} :
           /\ routing' = o.routing
           /\ result' = o.result
           /\ raised' = o.raised
           /\ pc' = o.pc
           /\ tracer' = o.tracer
    /\ UNCHANGED << user_query, gen_result, exec_result, llm_calls,
                    tool_calls, connector_calls, validated, llm_response,
                    history_before >>
    /\ UNCHANGED << agent_vars, arg, verdict >>

\* process_query, lines 100-103: the generator property of the routed store
\* finds no generator yet and get_context() raises: the exception reaches
\* the handler of process_query
schema_fetch_fails(res, lf, tr) ==
    LET span == tracer_calls(lf, tr, << "start_span" >>)
    IN  handle_exception(res,
                         IF Truthy(span.exc) THEN span.exc
                         ELSE Str("OperationalError: schema fetch failed"),
                         lf, span.val)

SchemaFetchFails ==
    /\ pc = "routed"
    /\ IF routing.database = "postgresql" THEN ~sql_generator ELSE ~mongo_generator
    /\ \E h \in {schema_fetch_fails(result, langfuse, tracer)} :
           /\ result' = h.result
           /\ raised' = h.raised
           /\ tracer' = h.tracer
    /\ pc' = "done"
    /\ UNCHANGED << user_query, routing, gen_result, exec_result, llm_calls,
                    tool_calls, connector_calls, validated, llm_response,
                    history_before >>
    /\ UNCHANGED << agent_vars, arg, verdict >>

\* after_generation without the `return result` of line 111: a failed
\* generation falls through to the execution
after_generation_falls_through(res, gen) ==
    IF ~Truthy(Get(gen, "success", None))
    THEN [result |-> [res EXCEPT !.error =
                         Get(gen, "error", Str("Failed to generate query"))],
          pc |-> "generated"]
    ELSE [result |-> [res EXCEPT !.generated_query = gen,
                                 !.explanation = Get(gen, "explanation", Str(""))],
          pc |-> "generated"]

\* process_query, lines 107-114, on the generator's result
after_generation(res, gen) ==
    IF ~Truthy(Get(gen, "success", None))
    THEN [result |-> [res EXCEPT !.error =
                         Get(gen, "error", Str("Failed to generate query"))],
          pc |-> "done"]
    ELSE [result |-> [res EXCEPT !.generated_query = gen,
                                 !.explanation = Get(gen, "explanation", Str(""))],
          pc |-> "generated"]

\* what the generation step leaves: the locals, the request's counters, and
\* the outcome h = [result, raised, tracer]
generation_outcome(gen, checked, llm, h, at) ==
    [gen_result |-> gen, validated |-> checked, llm |-> llm,
     result |-> h.result, raised |-> h.raised, pc |-> at, tracer |-> h.tracer]

\* process_query, lines 100-114: the generator of the routed store (built on
\* first use from the schema text) answers from the LLM's response
generate_step(res, database, response, lf, tr) ==
    LET span == tracer_calls(lf, tr, << "start_span" >>)
    IN  IF Truthy(span.exc)
        THEN generation_outcome(None, <<>>, 0,
                 handle_exception(res, span.exc, lf, span.val), "done")
        ELSE CHOOSE out \in
               { IF Truthy(g.exc)
                 THEN generation_outcome(None, <<>>, g.llm,
                          handle_exception(res, g.exc, lf, span.val), "done")
                 ELSE LET ended == tracer_calls(lf, span.val, << "end_span" >>)
                      IN  IF Truthy(ended.exc)
                          THEN generation_outcome(g.val, g.checked, g.llm,
                                   handle_exception(res, ended.exc, lf, ended.val),
                                   "done")
                          ELSE CHOOSE after \in
                                 { IF a.pc = "done"
                                   THEN generation_outcome(g.val, g.checked, g.llm,
                                            early_return(a.result, lf, ended.val),
                                            "done")
                                   ELSE generation_outcome(g.val, g.checked, g.llm,
                                            [result |-> a.result, raised |-> FALSE,
                                             tracer |-> ended.val],
                                            a.pc)
                                   : a \in {after_generation(res, g.val)} } : TRUE
                 : g \in {IF database = "postgresql"
                          THEN sql_generate(response, lf)
                          ELSE mongo_generate(response, lf)} } : TRUE

\* The generator properties (lines 55-69) test `self.mcp.postgres` /
\* `self.mcp.mongodb`, which exist whenever a URL is set, and settings always
\* yields one; available_databases is not read.  Here get_context()
\* answered (SchemaFetchFails is the step where it raises).
GenerateStep(response) ==
    /\ pc = "routed"
    /\ llm_response' = response
    /\ \E o \in {generate_step(result, routing.database, response,
                               langfuse, tracer)} :
           /\ gen_result' = o.gen_result
           /\ validated' = o.validated
           /\ llm_calls' = llm_calls + o.llm
           /\ result' = o.result
           /\ raised' = o.raised
           /\ pc' = o.pc
           /\ tracer' = o.tracer
    /\ IF routing.database = "postgresql"
       THEN sql_generator' = TRUE /\ UNCHANGED mongo_generator
       ELSE mongo_generator' = TRUE /\ UNCHANGED sql_generator
    /\ UNCHANGED << user_query, routing, exec_result, tool_calls,
                    connector_calls, history_before >>
    /\ UNCHANGED << available_databases, conversation_history, returned,
                    clears, arg, verdict, langfuse >>

\* the pipeline list is shared by gen_result and result["generated_query"]:
\* what the connector appended to it shows in both
with_pipeline(gen, pipeline) ==
    IF pipeline = None THEN gen ELSE Set(gen, "pipeline", pipeline)

\* what the execution step leaves, with the outcome h = [result, raised, tracer]
execution_outcome(tools, conns, gen, exec, h, at) ==
    [tools |-> tools, conns |-> conns, gen_result |-> gen, exec_result |-> exec,
     result |-> h.result, raised |-> h.raised, pc |-> at, tracer |-> h.tracer]

\* process_query, lines 117-125: dispatch, then the check of its outcome
execute_step(res, database, gen, conn, lf, tr) ==
    LET span == tracer_calls(lf, tr, << "start_span" >>)
    IN  IF Truthy(span.exc)
        THEN execution_outcome(<<>>, <<>>, gen, None,
                 handle_exception(res, span.exc, lf, span.val), "done")
        ELSE CHOOSE out \in
               { CHOOSE after \in
                   { LET held == [res EXCEPT !.generated_query = shared]
                         ended == tracer_calls(lf, span.val, << "end_span" >>)
                     IN  IF Truthy(d.exc)
                         THEN execution_outcome(d.tools, d.conns, shared, None,
                                  handle_exception(held, d.exc, lf, span.val),
                                  "done")
                         ELSE IF Truthy(ended.exc)
                         THEN execution_outcome(d.tools, d.conns, shared, d.val,
                                  handle_exception(held, ended.exc, lf, ended.val),
                                  "done")
                         ELSE IF ~Truthy(Get(d.val, "success", None))
                         THEN execution_outcome(d.tools, d.conns, shared, d.val,
                                  early_return(
                                      [held EXCEPT !.error =
                                          Get(d.val, "error",
                                              Str("Query execution failed"))],
                                      lf, ended.val),
                                  "done")
                         ELSE execution_outcome(d.tools, d.conns, shared, d.val,
                                  [result |-> held, raised |-> FALSE,
                                   tracer |-> ended.val],
                                  "executed")
                     : shared \in {with_pipeline(gen, d.pipeline)} } : TRUE
                 : d \in {execute_query(database, gen, conn)} } : TRUE

ExecuteStep(conn) ==
    /\ pc = "generated"
    /\ \E o \in {execute_step(result, routing.database, gen_result, conn,
                              langfuse, tracer)} :
           /\ tool_calls' = tool_calls \o o.tools
           /\ connector_calls' = connector_calls \o o.conns
           /\ gen_result' = o.gen_result
           /\ exec_result' = o.exec_result
           /\ result' = o.result
           /\ raised' = o.raised
           /\ pc' = o.pc
           /\ tracer' = o.tracer
    /\ UNCHANGED << user_query, routing, llm_calls, validated, llm_response,
                    history_before >>
    /\ UNCHANGED << agent_vars, arg, verdict >>

\* f"Returned {result['row_count']} rows"
returned_rows(row_count) == "Returned " \o ToString(row_count) \o " rows"

\* history_entries without the assistant's entry
history_entries_user_only(q, row_count) ==
    << [role |-> "user", content |-> q] >>

\* process_query, lines 138-145: the two entries of a successful query
history_entries(q, row_count) ==
    << [role |-> "user", content |-> q],
       [role |-> "assistant", content |-> returned_rows(row_count)] >>

\* RecordStep with the question appended before a failure at line 133: the
\* handler reports the failure and the entry stays
RecordStepAppendsThenFails ==
    /\ pc = "executed"
    /\ result' = [result EXCEPT !.error = Str("ValueError: DataFrame")]
    /\ conversation_history' =
          Append(conversation_history, [role |-> "user", content |-> user_query])
    /\ pc' = "done"
    /\ UNCHANGED << user_query, routing, gen_result, exec_result, raised,
                    llm_calls, tool_calls, connector_calls, validated,
                    llm_response, history_before, tracer >>
    /\ UNCHANGED << available_databases, sql_generator, mongo_generator,
                    returned, clears, arg, verdict, langfuse >>

\* process_query, lines 127-154: the result is filled in, the history grows,
\* the score is logged and `finally` ends the trace.  pd.DataFrame is given
\* the rows the connector has just built its own DataFrame from, so it does
\* not fail here.
record_step(res, exec, history, q, lf, tr) ==
    LET filled == [res EXCEPT !.success = TRUE,
                              !.data = Get(exec, "data", List(<<>>)),
                              !.row_count = Get(exec, "row_count", Num(0))]
        grown == history \o history_entries(q, filled.row_count.v)
        scored == tracer_calls(lf, tr, << "log_score(1.0)" >>)
    IN  IF Truthy(scored.exc)
        THEN LET h == handle_exception(filled, scored.exc, lf, scored.val)
             IN  [result |-> h.result, conversation_history |-> grown,
                  raised |-> h.raised, tracer |-> h.tracer]
        ELSE LET ended == tracer_calls(lf, scored.val, << "end" >>)
             IN  [result |-> filled, conversation_history |-> grown,
                  raised |-> Truthy(ended.exc), tracer |-> ended.val]

RecordStep ==
    /\ pc = "executed"
    /\ \E o \in {record_step(result, exec_result, conversation_history,
                             user_query, langfuse, tracer)} :
           /\ result' = o.result
           /\ conversation_history' = o.conversation_history
           /\ raised' = o.raised
           /\ tracer' = o.tracer
    /\ pc' = "done"
    /\ UNCHANGED << user_query, routing, gen_result, exec_result,
                    llm_calls, tool_calls, connector_calls, validated,
                    llm_response, history_before >>
    /\ UNCHANGED << available_databases, sql_generator, mongo_generator,
                    returned, clears, arg, verdict, langfuse >>

\* process_query, line 156: the caller gets `result`; the locals are gone
Return ==
    /\ pc = "done"
    /\ returned' = IF result.success
                   THEN Append(returned, << user_query, result.row_count.v >>)
                   ELSE returned
    /\ pc' = "idle"
    /\ user_query' = ""
    /\ routing' = NoRoute
    /\ gen_result' = None
    /\ exec_result' = None
    /\ result' = None
    /\ raised' = FALSE
    /\ llm_calls' = 0
    /\ tool_calls' = <<>>
    /\ connector_calls' = <<>>
    /\ validated' = <<>>
    /\ llm_response' = None
    /\ history_before' = <<>>
    /\ tracer' = NewTracer
    /\ UNCHANGED << available_databases, sql_generator, mongo_generator,
                    conversation_history, clears, arg, verdict, langfuse >>

\* clear_history that drops the oldest entry only
clear_history_oldest(history) ==
    IF history = <<>> THEN <<>> ELSE Tail(history)

\* DatabaseAgent.clear_history
clear_history(history) == <<>>

ClearHistory ==
    /\ pc = "idle"
    /\ conversation_history' = clear_history(conversation_history)
    /\ returned' = <<>>
    /\ clears' = IF clears < 2 THEN clears + 1 ELSE 2
    /\ UNCHANGED << available_databases, sql_generator, mongo_generator,
                    langfuse >>
    /\ UNCHANGED << request_vars, arg, verdict >>

Responses(database) ==
    IF database = "postgresql" THEN SqlResponses ELSE MongoResponses

Next ==
    \/ \E q \in Questions : StartRequest(q)
    \/ RouteStep
    \/ SchemaFetchFails
    \/ \E response \in Responses(routing.database) : GenerateStep(response)
    \/ \E conn \in ConnOutcomes : ExecuteStep(conn)
    \/ RecordStep
    \/ Return
    \/ ClearHistory

Spec == Init /\ [][Next]_vars

-----------------------------------------------------------------------------
(* Properties of process_query and clear_history, stated on Spec. *)

InSeq(seq, x) == \E i \in 1..Len(seq) : seq[i] = x

\* a query object the generator's validator accepted, whole or item by item
Accepted(q) ==
    \/ InSeq(validated, q)
    \/ q.t = "list" /\ \A i \in 1..Len(q.v) : InSeq(validated, q.v[i])

\* the query object an execute_tool call carries
DispatchedQuery(call) ==
    CASE call.tool = "postgres_query" -> Get(call.args, "sql", None)
      [] call.tool = "mongodb_find" -> Get(call.args, "filter", None)
      [] call.tool = "mongodb_aggregate" -> Get(call.args, "pipeline", None)

\* C1: every query handed to execute_tool was validated by the generator
\* that produced it (the SQL text, the find filter, every pipeline stage);
\* no unvalidated query reaches dispatch.
C1_DispatchedWasValidated ==
    \A i \in 1..Len(tool_calls) : Accepted(DispatchedQuery(tool_calls[i]))

\* two letters that differ in case at most
SameLetter(a, b) ==
    \/ a = b
    \/ a \in DOMAIN ToUpper /\ ToUpper[a] = b
    \/ b \in DOMAIN ToUpper /\ ToUpper[b] = a

\* word occurs in text at some position, letter case ignored
OccursIgnoringCase(text, word) ==
    \E i \in 1..(Len(text) - Len(word) + 1) :
        \A j \in 1..Len(word) : SameLetter(CharAt(text, i + j - 1), CharAt(word, j))

HasDeniedKeyword(text) ==
    \E k \in 1..Len(blocked_sql_keywords) :
        OccursIgnoringCase(text, blocked_sql_keywords[k])

HasTwoSemicolons(text) ==
    \E i, j \in 1..Len(text) :
        i < j /\ CharAt(text, i) = ";" /\ CharAt(text, j) = ";"

\* the request got an answer from the LLM
Answered == pc \in {"generated", "executed", "done"} /\ llm_calls = 1

\* the SQL text the LLM's answer decodes to, by JSON or by the SELECT pattern
AnswerHasSql ==
    /\ Answered
    /\ routing.database = "postgresql"
    /\ llm_response.kind # "raise"
    /\ LET parsed == sql_parse_response(llm_response)
       IN  /\ ~Truthy(parsed.exc)
           /\ Truthy(Get(parsed.val, "sql", None))

AnswerSql == Get(sql_parse_response(llm_response).val, "sql", None).v

\* C2: when the SQL obtained from the LLM response holds a denylisted
\* keyword in any letter case, or more than one ';', the request ends with
\* success = false, the validator's reason as error, and no call of
\* execute_tool.
C2_UnsafeSqlIsRejected ==
    (AnswerHasSql /\ (HasDeniedKeyword(AnswerSql) \/ HasTwoSemicolons(AnswerSql)))
        => /\ pc = "done"
           /\ result.success = FALSE
           /\ result.error = validate_sql_safety(AnswerSql, blocked_sql_keywords).reason
           /\ Truthy(result.error)
           /\ tool_calls = <<>>
           /\ connector_calls = <<>>

C2_Witness ==
    /\ AnswerHasSql
    /\ pc = "done"
    /\ HasTwoSemicolons(AnswerSql)
    /\ ~HasDeniedKeyword(AnswerSql)
    /\ result.error = Str("Multiple SQL statements not allowed")

\* the LLM answered with a JSON object that names no query
LLMDeclined ==
    /\ Answered
    /\ llm_response.kind = "json"
    /\ llm_response.val.t = "dict"
    /\ ~Truthy(Get(llm_response.val,
                   IF routing.database = "postgresql" THEN "sql" ELSE "query_type",
                   None))

\* C3: process_query never raises: whatever fails (the schema fetch of the
\* generator's construction, the LLM call, the parsing, the safety check,
\* the execution), the call keeps the exception and ends with a result of
\* success = false that carries an error; success = true needs every stage
\* to have succeeded.
C3_NeverRaises ==
    /\ raised = FALSE
    /\ pc = "done" =>
          /\ result.query = user_query
          /\ result.success \in BOOLEAN
          /\ result.success =>
                /\ Answered
                /\ llm_response.kind # "raise"
                /\ tool_calls # <<>>
                /\ exec_result # None
                /\ Truthy(Get(exec_result, "success", None))
          /\ (~result.success /\ ~LLMDeclined) => Truthy(result.error)

C3_Witness ==
    /\ pc = "done"
    /\ tool_calls # <<>>
    /\ exec_result = None
    /\ raised = FALSE
    /\ result.success = FALSE
    /\ Truthy(result.error)

\* the calls that have succeeded since the last clear_history, the current
\* one included once it has recorded its success
SucceededCalls ==
    IF pc = "done" /\ result.success
    THEN Append(returned, << user_query, result.row_count.v >>)
    ELSE returned

RECURSIVE ExpectedHistory(_)
ExpectedHistory(calls) ==
    IF calls = <<>> THEN <<>>
    ELSE << [role |-> "user", content |-> calls[1][1]],
            [role |-> "assistant",
             content |-> "Returned " \o ToString(calls[1][2]) \o " rows"] >>
         \o ExpectedHistory(Tail(calls))

\* C4: the history holds two entries per successful call since the last
\* clear_history, in call order: a user entry with the question, then an
\* assistant entry 'Returned N rows' with the row count of that call.
C4_HistoryOfSuccesses ==
    /\ Len(conversation_history) = 2 * Len(SucceededCalls)
    /\ \A i \in 1..Len(conversation_history) :
          conversation_history[i].role = IF i % 2 = 1 THEN "user" ELSE "assistant"
    /\ conversation_history = ExpectedHistory(SucceededCalls)

C4_Witness ==
    /\ pc = "idle"
    /\ Len(returned) = 2
    /\ returned[1][2] # returned[2][2]
    /\ Len(conversation_history) = 4

\* C5: a call that ends with success = false leaves the history as it was
\* when the call began; the history differs from that only once the call has
\* fully succeeded.
C5_FailureKeepsHistory ==
    /\ (pc = "done" /\ ~result.success) => conversation_history = history_before
    /\ pc \in {"start", "routed", "generated", "executed"}
          => conversation_history = history_before

C5_Witness ==
    /\ pc = "done"
    /\ ~result.success
    /\ connector_calls # <<>>
    /\ history_before # <<>>
    /\ conversation_history = history_before

\* C6: clear_history always succeeds and empties the history, a second call
\* in a row leaves it empty again, and a call changes neither the generators
\* nor the available stores nor anything of a request.
C6_ClearHistory ==
    /\ [](clears > 0 => conversation_history = <<>>)
    /\ [][clears' > clears =>
             /\ conversation_history' = <<>>
             /\ UNCHANGED << available_databases, sql_generator, mongo_generator >>
             /\ UNCHANGED request_vars]_vars

C6_Witness ==
    /\ clears = 2
    /\ conversation_history = <<>>
    /\ sql_generator
    /\ mongo_generator

-----------------------------------------------------------------------------
(* _fast_route on its own: a request that has just begun, for every        *)
(* question of up to MaxWords words and every set of available stores.     *)

Words == {"show", "customer", "Events", "ORDER", "catalog", "metrics"}

RECURSIVE JoinWords(_)
JoinWords(ws) ==
    IF Len(ws) = 1 THEN ws[1] ELSE ws[1] \o " " \o JoinWords(Tail(ws))

RouteQuestions ==
    {JoinWords(ws) : ws \in UNION {[1..n -> Words] : n \in 1..MaxWords}}

InitRoute ==
    /\ available_databases \in SUBSET Databases
    /\ sql_generator = FALSE
    /\ mongo_generator = FALSE
    /\ conversation_history = <<>>
    /\ returned = <<>>
    /\ clears = 0
    /\ user_query \in RouteQuestions
    /\ pc = "start"
    /\ result = NewResult(user_query)
    /\ routing = NoRoute
    /\ gen_result = None
    /\ exec_result = None
    /\ raised = FALSE
    /\ llm_calls = 0
    /\ tool_calls = <<>>
    /\ connector_calls = <<>>
    /\ validated = <<>>
    /\ llm_response = None
    /\ history_before = <<>>
    /\ arg = None
    /\ verdict = None
    /\ langfuse = TracingDisabled
    /\ tracer = NewTracer

SpecRoute == InitRoute /\ [][RouteStep]_vars

\* some keyword of the list occurs in the question, letter case ignored
HasKeyword(keywords, q) ==
    \E k \in 1..Len(keywords) : OccursIgnoringCase(q, keywords[k])

\* the five rules, each with the negation of the rules before it
ExpectedRoute(ms, ps, has_relational, has_document) ==
    CASE ms > ps /\ has_document -> Route("mongodb", 8)
      [] ~(ms > ps /\ has_document) /\ ps > 0 /\ has_relational
            -> Route("postgresql", 8)
      [] ~(ms > ps /\ has_document) /\ ~(ps > 0) /\ has_relational
            -> Route("postgresql", 6)
      [] ~has_relational /\ ~(ms > ps) /\ has_document -> Route("mongodb", 6)
      [] ~has_relational /\ ~has_document -> Route("postgresql", 5)

\* C7: fast routing makes no LLM call and is decided by the two keyword
\* scores and the available stores through the five rules in order, with
\* confidence 0.8, 0.8, 0.6, 0.6, 0.5 (in tenths here); with both stores
\* available a question with a relational keyword and no document keyword
\* goes to the relational store with 0.8, and one with a document keyword
\* and no relational keyword to the document store with 0.8.
C7_FastRouteRules ==
    pc = "routed" =>
        LET has_relational == "postgresql" \in available_databases
            has_document == "mongodb" \in available_databases
            relational_kw == HasKeyword(postgres_keywords, user_query)
            document_kw == HasKeyword(mongo_keywords, user_query)
        IN  /\ llm_calls = 0
            /\ llm_response = None
            /\ routing = ExpectedRoute(mongo_score(user_query),
                                       postgres_score(user_query),
                                       has_relational, has_document)
            /\ (mongo_score(user_query) > 0) = document_kw
            /\ (postgres_score(user_query) > 0) = relational_kw
            /\ (has_relational /\ has_document /\ relational_kw /\ ~document_kw)
                  => routing = Route("postgresql", 8)
            /\ (has_relational /\ has_document /\ document_kw /\ ~relational_kw)
                  => routing = Route("mongodb", 8)

C7_Witness ==
    /\ pc = "routed"
    /\ available_databases = Databases
    /\ user_query = "show Events"
    /\ routing = Route("mongodb", 8)

ScoresTie ==
    /\ pc = "routed"
    /\ mongo_score(user_query) = postgres_score(user_query)
    /\ postgres_score(user_query) > 0

\* C8: whenever the document score and the relational score of a question
\* are equal and nonzero, fast routing resolves to the relational store.
C8_TieGoesRelational ==
    ScoresTie => routing.database = "postgresql"

\* C8, as the code has it: an equal nonzero score resolves to the relational
\* store with confidence 0.8 whenever that store is available, and also
\* (with 0.5) when no store is; with the document store alone available it
\* resolves to the document store, with confidence 0.6.
C8_TieGoesRelationalIfAvailable ==
    ScoresTie =>
        IF "postgresql" \in available_databases
        THEN routing = Route("postgresql", 8)
        ELSE IF "mongodb" \in available_databases
        THEN routing = Route("mongodb", 6)
        ELSE routing = Route("postgresql", 5)

C8_Witness ==
    /\ ScoresTie
    /\ available_databases = Databases
    /\ user_query = "ORDER catalog"
    /\ routing = Route("postgresql", 8)

-----------------------------------------------------------------------------
(* The validators on their own: one call on every argument of a bounded    *)
(* family.  pc tells the call ("validate_sql", "validate_mongo") from its   *)
(* return ("sql_verdict", "mongo_verdict").                                 *)

\* every variable but pc, arg and verdict, as __init__ leaves them
NoRequest ==
    /\ available_databases = {}
    /\ sql_generator = FALSE
    /\ mongo_generator = FALSE
    /\ conversation_history = <<>>
    /\ returned = <<>>
    /\ clears = 0
    /\ user_query = ""
    /\ routing = NoRoute
    /\ gen_result = None
    /\ exec_result = None
    /\ result = None
    /\ raised = FALSE
    /\ llm_calls = 0
    /\ tool_calls = <<>>
    /\ connector_calls = <<>>
    /\ validated = <<>>
    /\ llm_response = None
    /\ history_before = <<>>
    /\ langfuse = TracingDisabled
    /\ tracer = NewTracer

Fragments ==
    {"SELECT * FROM t LIMIT 100", "select name", ";", "drop", " Delete ",
     "created_at", "Exec", "ute"}

RECURSIVE Concat(_)
Concat(fs) == IF fs = <<>> THEN "" ELSE fs[1] \o Concat(Tail(fs))

SqlTexts ==
    {Concat(fs) : fs \in UNION {[1..n -> Fragments] : n \in 0..MaxFrags}}

InitSql ==
    /\ NoRequest
    /\ pc = "validate_sql"
    /\ arg \in {Str(text) : text \in SqlTexts}
    /\ verdict = None

\* validate_sql_safety(sql, settings.blocked_sql_keywords)
ValidateSql ==
    /\ pc = "validate_sql"
    /\ verdict' = validate_sql_safety_of(arg, blocked_sql_keywords)
    /\ pc' = "sql_verdict"
    /\ UNCHANGED << agent_vars, user_query, routing, gen_result, exec_result,
                    result, raised, llm_calls, tool_calls, connector_calls,
                    validated, llm_response, history_before, tracer, arg >>

SpecSql == InitSql /\ [][ValidateSql]_vars

\* C9: validate_sql_safety answers safe = false exactly when some denylist
\* entry occurs in the text whatever the letter case, or the text holds more
\* than one ';'; otherwise it answers safe = true with no reason.  A text
\* with DROP in any case or with two ';' is rejected; a single
\* SELECT ... LIMIT 100 with at most one ';' is accepted.
C9_SqlVerdict ==
    pc = "sql_verdict" =>
        /\ verdict.exc = None
        /\ verdict.safe = ~(HasDeniedKeyword(arg.v) \/ HasTwoSemicolons(arg.v))
        /\ verdict.safe => verdict.reason = None
        /\ ~verdict.safe => Truthy(verdict.reason)
        /\ OccursIgnoringCase(arg.v, "drop") => ~verdict.safe
        /\ arg.v \in {"SELECT * FROM t LIMIT 100", "SELECT * FROM t LIMIT 100;"}
              => verdict = Verdict(TRUE, None)

C9_Witness ==
    /\ pc = "sql_verdict"
    /\ arg = Str("select name;drop")
    /\ verdict = Verdict(FALSE, Str("Query contains blocked keyword: DROP"))

Keys == {"$where", "$function", "status"}

Leaf == Str("active")

\* what a key of the top-level mapping may hold
Inner ==
    LET D == {Stage(k, Leaf) : k \in Keys}
    IN  {Leaf} \cup D
          \cup {List(<< Leaf, d >>) : d \in D}
          \cup {List(<< List(<< Stage("$where", Leaf) >>) >>)}
          \cup {Stage(k, d) : k \in Keys, d \in D}
          \cup {Stage("status", List(<< d >>)) : d \in D}

\* the keys of a dict are distinct
DistinctKeys(n) ==
    {ks \in [1..n -> Keys] : \A i, j \in 1..n : ks[i] = ks[j] => i = j}

\* the stages of a $match, $group, $limit pipeline, and a stage with a
\* $function two levels down
PipelineStages ==
    {Stage("$match", Active),
     Stage("$group", Stage("_id", Str("$type"))),
     Stage("$limit", Num(100)),
     Stage("$addFields", Stage("x", Stage("$function", Str("f"))))}

InitMongo ==
    /\ NoRequest
    /\ pc = "validate_mongo"
    /\ \/ \E n \in 0..MaxWidth : \E ks \in DistinctKeys(n) :
             \E vs \in [1..n -> Inner] :
                arg = Dict([i \in 1..n |-> KV(ks[i], vs[i])])
       \/ arg \in PipelineStages
    /\ verdict = None

\* validate_mongo_safety(query)
ValidateMongo ==
    /\ pc = "validate_mongo"
    /\ verdict' = validate_mongo_safety(arg)
    /\ pc' = "mongo_verdict"
    /\ UNCHANGED << agent_vars, user_query, routing, gen_result, exec_result,
                    result, raised, llm_calls, tool_calls, connector_calls,
                    validated, llm_response, history_before, tracer, arg >>

SpecMongo == InitMongo /\ [][ValidateMongo]_vars

RECURSIVE ReachableKeys(_)
RECURSIVE KeysInItems(_)

\* the keys met from a mapping, in order: each key, then the keys met from
\* its value when that is a mapping, or from the mappings among the items of
\* its value when that is a sequence
ReachableKeys(d) ==
    IF d.v = <<>> THEN <<>>
    ELSE LET first == d.v[1]
             below == IF first.v.t = "dict" THEN ReachableKeys(first.v)
                      ELSE IF first.v.t = "list" THEN KeysInItems(first.v.v)
                      ELSE <<>>
         IN  << first.k >> \o below \o ReachableKeys(Dict(Tail(d.v)))

KeysInItems(items) ==
    IF items = <<>> THEN <<>>
    ELSE (IF items[1].t = "dict" THEN ReachableKeys(items[1]) ELSE <<>>)
            \o KeysInItems(Tail(items))

\* C10: validate_mongo_safety answers safe = false exactly when a key
\* $where or $function is reachable from the top-level mapping through
\* mapping values and through mappings that are direct items of sequence
\* values, and its reason names the first such key in traversal order;
\* {status: active} and the stages of a $match, $group, $limit pipeline are
\* accepted.
C10_MongoVerdict ==
    pc = "mongo_verdict" =>
        LET keys == ReachableKeys(arg)
            hits == {i \in 1..Len(keys) : keys[i] \in {"$where", "$function"}}
        IN  /\ verdict.exc = None
            /\ verdict.safe = (hits = {})
            /\ hits = {} => verdict.reason = None
            /\ hits # {} => verdict.reason =
                  Str("Query contains dangerous operator: " \o keys[Min(hits)])
            /\ arg \in {Active, Stage("$match", Active),
                         Stage("$group", Stage("_id", Str("$type"))),
                         Stage("$limit", Num(100))}
                  => verdict = Verdict(TRUE, None)

C10_Witness ==
    /\ pc = "mongo_verdict"
    /\ arg = Dict(<< KV("status", List(<< Leaf, Stage("$function", Leaf) >>)),
                     KV("$where", Leaf) >>)
    /\ verdict = Verdict(FALSE, Str("Query contains dangerous operator: $function"))

-----------------------------------------------------------------------------
(* The validators on any value: text, mappings, and values of another      *)
(* shape (null, a number, a boolean, a sequence).                           *)

Malformed ==
    {None, Num(5), Bool(TRUE), List(<<>>), List(<< Active >>),
     List(<< Str("$where") >>)}

AnyValues ==
    Malformed \cup PipelineStages \cup {Active, Dict(<<>>)}
        \cup {Str(text) : text \in SqlTexts}

InitAny ==
    /\ NoRequest
    /\ pc \in {"validate_sql", "validate_mongo"}
    /\ arg \in AnyValues
    /\ verdict = None

SpecAny == InitAny /\ [][ValidateSql \/ ValidateMongo]_vars

\* C11: both validators are total: for any input, a filter or stage that is
\* no mapping and SQL that is no text included, they return a verdict and
\* never raise; an unexpected structure gives safe = false with a reason.
C11_ValidatorsTotal ==
    pc \in {"sql_verdict", "mongo_verdict"} =>
        /\ verdict.exc = None
        /\ verdict.safe \in BOOLEAN
        /\ (pc = "sql_verdict" /\ arg.t # "str") =>
              (~verdict.safe /\ Truthy(verdict.reason))
        /\ (pc = "mongo_verdict" /\ arg.t # "dict") =>
              (~verdict.safe /\ Truthy(verdict.reason))

-----------------------------------------------------------------------------
(* One request from start to return.  process_query is straight-line code  *)
(* run by one caller: once begun, each of its steps is taken.              *)

RequestStep ==
    \/ RouteStep
    \/ SchemaFetchFails
    \/ \E response \in Responses(routing.database) : GenerateStep(response)
    \/ \E conn \in ConnOutcomes : ExecuteStep(conn)
    \/ RecordStep

SpecLive == Spec /\ WF_vars(RequestStep)

\* the order of the positions of a request
SinglePass ==
    << pc, pc' >> \in
        { << "idle", "idle" >>, << "idle", "start" >>, << "start", "routed" >>,
          << "routed", "generated" >>, << "routed", "done" >>,
          << "generated", "executed" >>, << "generated", "done" >>,
          << "executed", "done" >>, << "done", "idle" >> }

\* C12: a request is one pass Start, Routed, Generated, Executed, Done with
\* no retry: routing happens once and first; the LLM is called at most once
\* and only after routing; execute_tool is called at most once and only
\* after a generation that returned success; a failed generation or
\* execution goes straight to Done; and every request reaches Done.
C12_SinglePass ==
    /\ [][/\ SinglePass
          /\ routing' # routing => (pc = "start" \/ pc = "done")
          /\ llm_calls' # llm_calls =>
                \/ pc = "routed" /\ llm_calls = 0 /\ llm_calls' = 1
                \/ pc = "done" /\ pc' = "idle"
          /\ tool_calls' # tool_calls =>
                \/ /\ pc = "generated"
                   /\ tool_calls = <<>>
                   /\ Len(tool_calls') = 1
                   /\ Truthy(Get(gen_result, "success", None))
                \/ pc = "done" /\ pc' = "idle"
          /\ (pc = "routed" /\ pc' = "generated")
                => Truthy(Get(gen_result', "success", None))
          /\ (pc = "routed" /\ pc' = "done") => tool_calls' = <<>>
          /\ (pc = "generated" /\ pc' = "executed")
                => Truthy(Get(exec_result', "success", None))
          /\ (pc = "generated" /\ pc' = "done") => ~result'.success
         ]_vars
    /\ (pc = "start") ~> (pc = "done")

C12_Witness ==
    /\ pc = "done"
    /\ routing # NoRoute
    /\ llm_calls = 1
    /\ Len(tool_calls) = 1
    /\ Len(connector_calls) = 1
    /\ result.success

-----------------------------------------------------------------------------
(* What process_query returns. *)

\* the generator of the routed store answered with a failure variant
GenerationFailed ==
    /\ pc = "done"
    /\ llm_calls = 1
    /\ ~Truthy(Get(gen_result, "success", None))

\* the result holds x in one of its fields, or as the suggestion of the
\* generated query it carries
ResultCarries(x) ==
    \/ \E f \in {"database", "generated_query", "data", "row_count",
                 "explanation", "error"} : result[f] = x
    \/ /\ result.generated_query.t = "dict"
       /\ Get(result.generated_query, "suggestion", None) = x

\* C13: when the generator returns a failure variant, process_query stops
\* and returns a failure result that carries the generator's error and,
\* whenever the generator supplied one, the generator's suggestion, both
\* verbatim.
C13_FailureCarriesErrorAndSuggestion ==
    GenerationFailed =>
        /\ ~result.success
        /\ tool_calls = <<>>
        /\ HasKey(gen_result, "error") => result.error = Get(gen_result, "error", None)
        /\ Truthy(Get(gen_result, "suggestion", None))
              => ResultCarries(Get(gen_result, "suggestion", None))

\* C14: every result process_query returns is consistent: success = false
\* comes with a non-empty error text, and success = true comes with a null
\* error and the rows and row count of the execution outcome; for every
\* shape of LLM response, a failure JSON without error or with a null error
\* included.
C14_ResultIsConsistent ==
    pc = "done" =>
        /\ ~result.success => (result.error.t = "str" /\ result.error.v # "")
        /\ result.success =>
              /\ result.error = None
              /\ result.data = Get(exec_result, "data", None)
              /\ result.row_count = Get(exec_result, "row_count", None)

-----------------------------------------------------------------------------
(* What generate returns. *)

\* generate has just returned success on a JSON object of the LLM that its
\* validator accepted
GeneratedFromJson ==
    /\ pc = "generated"
    /\ validated # <<>>
    /\ llm_response.kind = "json"
    /\ llm_response.val.t = "dict"

KeysOf(d) == {d.v[i].k : i \in 1..Len(d.v)}

\* C15: when the LLM answers with a valid success JSON object that passes
\* the safety validation, generate returns a query with every field of that
\* object present under the same name and with the same value, and nothing
\* added but the success tag.
C15_GenerateKeepsFields ==
    GeneratedFromJson =>
        /\ \A key \in KeysOf(llm_response.val) \ {"success"} :
              /\ HasKey(gen_result, key)
              /\ Get(gen_result, key, None) = Get(llm_response.val, key, None)
        /\ KeysOf(gen_result) = KeysOf(llm_response.val) \cup {"success"}
        /\ Get(gen_result, "success", None) = Bool(TRUE)

-----------------------------------------------------------------------------
(* Tracing.  SpecTraced starts the agent under every tracing setup: no     *)
(* keys configured, Langfuse working, or one SDK call failing whenever it  *)
(* is made.                                                                *)

InitTraced ==
    /\ available_databases \in SUBSET Databases
    /\ sql_generator = FALSE
    /\ mongo_generator = FALSE
    /\ conversation_history = <<>>
    /\ returned = <<>>
    /\ clears = 0
    /\ Idle
    /\ arg = None
    /\ verdict = None
    /\ langfuse \in TracingSetups

SpecTraced == InitTraced /\ [][Next]_vars

\* what a step leaves, the tracer aside
Functional(o) == [o EXCEPT !.tracer = NewTracer]

\* C16: tracing is a side channel.  From every reachable state and for every
\* input of the next step (question, LLM response, outcome of the store),
\* the step of process_query leaves the same result, locals, counters and
\* conversation history under the tracing setup of the process (disabled,
\* working, or failing at the client, trace start, span start, span end,
\* generation log, score, trace end or flush) as it leaves with tracing
\* disabled; so the returned result and the history of the whole call are
\* the same, and no exception leaves the call.
C16_TracingIsSideChannel ==
    /\ raised = FALSE
    /\ pc = "idle" =>
          \A q \in Questions :
              Functional(start_request(q, langfuse)) =
                  Functional(start_request(q, TracingDisabled))
    /\ pc = "start" =>
          Functional(route_step(result, user_query, available_databases,
                                langfuse, tracer)) =
              Functional(route_step(result, user_query, available_databases,
                                    TracingDisabled, NewTracer))
    /\ pc = "routed" =>
          /\ \A response \in Responses(routing.database) :
                 Functional(generate_step(result, routing.database, response,
                                          langfuse, tracer)) =
                     Functional(generate_step(result, routing.database, response,
                                              TracingDisabled, NewTracer))
          /\ Functional(schema_fetch_fails(result, langfuse, tracer)) =
                 Functional(schema_fetch_fails(result, TracingDisabled, NewTracer))
    /\ pc = "generated" =>
          \A conn \in ConnOutcomes :
              Functional(execute_step(result, routing.database, gen_result, conn,
                                      langfuse, tracer)) =
                  Functional(execute_step(result, routing.database, gen_result,
                                          conn, TracingDisabled, NewTracer))
    /\ pc = "executed" =>
          Functional(record_step(result, exec_result, conversation_history,
                                 user_query, langfuse, tracer)) =
              Functional(record_step(result, exec_result, conversation_history,
                                     user_query, TracingDisabled, NewTracer))

\* a query answered and recorded while every generation log of the open
\* trace failed
C16_Witness ==
    /\ langfuse.enabled
    /\ langfuse.fails = "generation_end"
    /\ tracer.root_span = Span
    /\ pc = "done"
    /\ result.success
    /\ Len(conversation_history) = Len(history_before) + 2

-----------------------------------------------------------------------------
(* The document generator on an aggregation. *)

\* the generator has returned on a JSON object of the LLM that names an
\* aggregation and carries a pipeline list
AggregationParsed ==
    /\ routing.database = "mongodb"
    /\ gen_result # None
    /\ llm_response # None
    /\ llm_response.kind = "json"
    /\ llm_response.val.t = "dict"
    /\ Get(llm_response.val, "query_type", None) = Str("aggregate")
    /\ Get(llm_response.val, "pipeline", None).t = "list"

UnsafeStages(stages) ==
    {i \in 1..Len(stages) : LET safety == validate_mongo_safety(stages[i])
                            IN  Truthy(safety.exc) \/ ~safety.safe}

\* C17: for every parsed aggregation, whatever other fields the object
\* carries, the document generator returns success only if every stage of
\* the pipeline is safe, and otherwise a failure whose error is the reason
\* reported for the first unsafe stage.
C17_EveryStageChecked ==
    AggregationParsed =>
        LET stages == Get(llm_response.val, "pipeline", None).v
            unsafe == UnsafeStages(stages)
        IN  IF unsafe = {}
            THEN Truthy(Get(gen_result, "success", None))
            ELSE /\ ~Truthy(Get(gen_result, "success", None))
                 /\ Get(gen_result, "error", None) =
                        validate_mongo_safety(stages[Min(unsafe)]).reason

-----------------------------------------------------------------------------
(* The relational generator and its validator. *)

\* SQLGenerator.generate has returned in this request
SqlGenerated ==
    /\ routing.database = "postgresql"
    /\ gen_result # None
    /\ llm_response # None

\* C18: the relational generator returns success = true only for a result
\* whose SQL text is non-empty and was accepted by validate_sql_safety;
\* every result that parsing tagged as success is validated, and when the
\* validator reports unsafe the result is the failure variant with error =
\* the validator's reason and sql = null.
C18_SuccessIsValidatedSql ==
    SqlGenerated =>
        /\ Truthy(Get(gen_result, "success", None)) =>
              LET sql == Get(gen_result, "sql", None)
              IN  /\ sql.t = "str"
                  /\ sql.v # ""
                  /\ validated = << sql >>
                  /\ validate_sql_safety(sql.v, blocked_sql_keywords).safe
        /\ llm_response.kind # "raise" =>
              LET parsed == sql_parse_response(llm_response)
              IN  (~Truthy(parsed.exc) /\ Truthy(Get(parsed.val, "success", None))) =>
                      LET sql == Get(parsed.val, "sql", None)
                          safety == validate_sql_safety(sql.v, blocked_sql_keywords)
                      IN  IF safety.safe
                          THEN validated = << sql >>
                          ELSE gen_result = sql_failure(safety.reason)

-----------------------------------------------------------------------------
(* A failed LLM call. *)

\* client.messages.create raised in this request
LLMCallFailed ==
    /\ llm_response # None
    /\ llm_response.kind = "raise"

\* C19: when the one LLM call of generate fails, generate raises nothing and
\* returns the failure variant with the exception's message; nothing is
\* validated, no second LLM call is made, and process_query returns a
\* failure with that message without calling execute_tool.
C19_LLMFailureIsAGenerationFailure ==
    LLMCallFailed =>
        /\ gen_result = IF routing.database = "postgresql"
                        THEN sql_failure(Str(llm_response.text))
                        ELSE mongo_failure(Str(llm_response.text))
        /\ validated = <<>>
        /\ llm_calls = 1
        /\ tool_calls = <<>>
        /\ connector_calls = <<>>
        /\ exec_result = None
        /\ pc = "done"
        /\ ~raised
        /\ ~result.success
        /\ result.error = Str(llm_response.text)
        /\ result.generated_query = None

C19_Witness ==
    /\ LLMCallFailed
    /\ routing.database = "postgresql"
    /\ pc = "done"
    /\ result.error = Str("APIConnectionError")

-----------------------------------------------------------------------------
(* _parse_response of the two generators. *)

\* the LLM call of this request returned a text
LLMAnswered ==
    /\ llm_response # None
    /\ llm_response.kind # "raise"

\* what _parse_response of the routed store's generator makes of the answer
Parsed ==
    IF routing.database = "postgresql"
    THEN sql_parse_response(llm_response)
    ELSE mongo_parse_response(llm_response)

\* the parse returned (raised nothing) and tagged its result success = true
TaggedSuccess ==
    /\ Parsed.exc = None
    /\ Get(Parsed.val, "success", None) = Bool(TRUE)

\* the sql / query_type of the decoded object, None when it carries none
Discriminator ==
    IF llm_response.val.t # "dict" THEN None
    ELSE Get(llm_response.val,
             IF routing.database = "postgresql" THEN "sql" ELSE "query_type",
             None)

ParseFailure == Str("Failed to parse response: JSONDecodeError")

\* the positions of text where SELECT begins, letter case ignored
SelectAt(text) ==
    {i \in 1..(Len(text) - 5) :
        \A j \in 1..6 : SameLetter(CharAt(text, i + j - 1), CharAt("SELECT", j))}

\* from the first SELECT to the first ';' behind it, or to the end of the text
ExtractedSelect(text) ==
    LET from == Min(SelectAt(text))
        ends == {j \in from..Len(text) : CharAt(text, j) = ";"}
    IN  strip(SubSeq(text, from, IF ends = {} THEN Len(text) ELSE Min(ends)))

\* the relational generator on a text that did not decode, SELECT looked for
\* in `text`: found, the parse is a success with the extracted statement and
\* generate validates it (it returns it validated, or the validator's
\* failure); not found, the parse is the parse-failure error
SqlFallback(text) ==
    IF SelectAt(text) # {}
    THEN LET sql == Str(ExtractedSelect(text))
             safety == validate_sql_safety(sql.v, blocked_sql_keywords)
         IN  /\ TaggedSuccess
             /\ Get(Parsed.val, "sql", None) = sql
             /\ IF safety.safe
                THEN /\ validated = << sql >>
                     /\ Get(gen_result, "sql", None) = sql
                     /\ Get(gen_result, "success", None) = Bool(TRUE)
                ELSE /\ validated = <<>>
                     /\ gen_result = sql_failure(safety.reason)
    ELSE /\ ~TaggedSuccess
         /\ Get(gen_result, "error", None) = ParseFailure
         /\ Get(gen_result, "success", None) = Bool(FALSE)

\* the document generator on a text that did not decode: the parse-failure
\* error, nothing validated
MongoNoFallback ==
    /\ gen_result = mongo_failure(ParseFailure)
    /\ validated = <<>>

\* C20 (as claimed): on a JSON decode failure the relational generator
\* returns success with the extracted statement exactly when a SELECT can
\* be found in the text (the text given to json.loads: the response
\* stripped and, when it begins with a code fence, without its first and
\* last line), the extracted SQL being validated before generate returns,
\* and else a parse-failure error; the document generator always returns
\* the parse-failure error; a decoded object is tagged success exactly when
\* its sql / query_type is not null.
C20_ParseOutcomes ==
    LLMAnswered =>
        /\ (llm_response.kind = "text" /\ routing.database = "postgresql") =>
               SqlFallback(clean_response(llm_response.text))
        /\ (llm_response.kind = "text" /\ routing.database = "mongodb") =>
               MongoNoFallback
        /\ llm_response.kind = "json" =>
               (TaggedSuccess <=> Discriminator # None)

\* C20 (as the code has it): a decoded object is tagged success exactly
\* when its sql / query_type is truthy (not null, not empty, not zero), a
\* truthy sql that is not a string making the parse raise, as does a decoded
\* value that is not an object.  The decode-failure cases are as claimed.
C20_ParseOutcomesTruthy ==
    LLMAnswered =>
        /\ (llm_response.kind = "text" /\ routing.database = "postgresql") =>
               SqlFallback(clean_response(llm_response.text))
        /\ (llm_response.kind = "text" /\ routing.database = "mongodb") =>
               MongoNoFallback
        /\ llm_response.kind = "json" =>
               /\ TaggedSuccess <=>
                     /\ Truthy(Discriminator)
                     /\ routing.database = "postgresql" => Discriminator.t = "str"
               /\ Parsed.exc # None <=>
                     \/ llm_response.val.t # "dict"
                     \/ /\ routing.database = "postgresql"
                        /\ Truthy(Discriminator)
                        /\ Discriminator.t # "str"

\* a text that did not decode, and the SELECT found in it went through the
\* validator and on to the execution
C20_Witness ==
    /\ LLMAnswered
    /\ llm_response.kind = "text"
    /\ routing.database = "postgresql"
    /\ pc = "generated"
    /\ validated = << Str(ExtractedSelect(clean_response(llm_response.text))) >>

-----------------------------------------------------------------------------
(* Dispatch on its own: a caller of MCPManager.execute_tool that is not the *)
(* agent sends any tool name with any arguments, several times.             *)

MaxCalls == 2

\* filters and stage bodies a caller may send, the last one no mapping
DispatchDocs ==
    { Dict(<<>>),
      Active,
      Stage("$where", Str("1")),
      Stage("a", Stage("$function", Str("f"))),
      Stage("$and", List(<< Active, Stage("x", Stage("$accumulator", Str("f"))) >>)),
      Stage("status", List(<< List(<< Stage("$where", Str("1")) >>) >>)),
      Str("{}") }

DispatchPipelines ==
    { List(<<>>),
      List(<< Stage("$match", Active) >>),
      List(<< Stage("$match", Active), Stage("$limit", Num(5)) >>),
      List(<< Stage("$match", Active),
              Stage("$group", Stage("n", Stage("$accumulator", Str("f")))) >>),
      List(<< Stage("$match", Stage("$where", Str("1"))) >>),
      List(<< Str("$match"), Stage("$where", Str("1")) >>),
      Str("pipeline") }

DispatchSql ==
    { Str("SELECT 1"), Str("SELECT 1;"), Str("SELECT 1;;"),
      Str("select 1; drop table t"), Str("Update t set a = 1"),
      Str("select created_at from t"), Str(""), Num(5) }

\* the calls a caller may make
DispatchCalls ==
    {[tool |-> "postgres_query", args |-> Dict(<< KV("sql", q) >>)]
        : q \in DispatchSql}
    \cup {[tool |-> "postgres_query", args |-> Dict(<<>>)]}
    \cup {[tool |-> "mongodb_find",
           args |-> Dict(<< KV("collection", Str("users")), KV("filter", d) >>)]
            : d \in DispatchDocs}
    \cup {[tool |-> "mongodb_find", args |-> a]
            : a \in {Dict(<< KV("collection", Str("users")) >>),
                     Dict(<< KV("filter", Stage("$where", Str("1"))) >>)}}
    \cup {[tool |-> "mongodb_aggregate",
           args |-> Dict(<< KV("collection", Str("users")), KV("pipeline", p) >>)]
            : p \in DispatchPipelines}
    \cup {[tool |-> "mongodb_aggregate", args |-> a]
            : a \in {Dict(<< KV("collection", Str("users")) >>),
                     Dict(<< KV("pipeline",
                                List(<< Stage("$match", Active) >>)) >>)}}
    \cup {[tool |-> t, args |-> Dict(<<>>)]
            : t \in {"postgres_schema", "postgres_table_info",
                     "mongodb_collections", "postgres_drop", "shell"}}

InitDispatch ==
    /\ NoRequest
    /\ pc = "dispatch"
    /\ arg = None
    /\ verdict = None

\* one MCPManager.execute_tool(tool_name, arguments) call: arg is the call,
\* verdict what it handed back
DispatchTool(call, conn) ==
    /\ pc = "dispatch"
    /\ Len(tool_calls) < MaxCalls
    /\ \E out \in {execute_tool(call.tool, call.args, conn)} :
          /\ verdict' = out
          /\ exec_result' = out.val
          /\ raised' = Truthy(out.exc)
          /\ connector_calls' = connector_calls \o out.conns
    /\ arg' = call
    /\ tool_calls' = Append(tool_calls, call)
    /\ UNCHANGED << agent_vars, pc, user_query, routing, gen_result, result,
                    llm_calls, validated, llm_response, history_before, tracer >>

DispatchStep ==
    \E call \in DispatchCalls :
        \E conn \in {c \in ConnOutcomes : c.ok => c.rows = 2} :
            DispatchTool(call, conn)

SpecDispatch == InitDispatch /\ [][DispatchStep]_vars

\* the number of ';' in a text
Semicolons(text) == Cardinality({i \in 1..Len(text) : CharAt(text, i) = ";"})

SqlPasses(sql) ==
    /\ sql.t = "str"
    /\ ~HasDeniedKeyword(sql.v)
    /\ Semicolons(sql.v) <= 1

DispatchDenylist == {"$where", "$function", "$accumulator"}

DocPasses(d) ==
    /\ d.t = "dict"
    /\ \A i \in 1..Len(ReachableKeys(d)) : ReachableKeys(d)[i] \notin DispatchDenylist

\* what the connector was asked to run passed the dispatch-side check
ConnectorCallPasses(c) ==
    CASE c.op = "execute_query" -> SqlPasses(c.query)
      [] c.op = "execute_find" -> DocPasses(c.query)
      [] c.op = "execute_aggregate" ->
            /\ c.query.t = "list"
            /\ \A i \in 1..Len(c.query.v) : DocPasses(c.query.v[i])
      [] OTHER -> TRUE

\* a well-formed query that the dispatch-side check must turn down
RejectedCall(call) ==
    CASE call.tool = "postgres_query" ->
            LET sql == Get(call.args, "sql", Str(""))
            IN  sql.t = "str" /\ sql.v # "" /\ ~SqlPasses(sql)
      [] call.tool = "mongodb_find" ->
            LET filter == Get(call.args, "filter", Dict(<<>>))
            IN  /\ Truthy(Get(call.args, "collection", Str("")))
                /\ filter.t = "dict" /\ ~DocPasses(filter)
      [] call.tool = "mongodb_aggregate" ->
            LET pipeline == Get(call.args, "pipeline", List(<<>>))
            IN  /\ Truthy(Get(call.args, "collection", Str("")))
                /\ pipeline.t = "list"
                /\ \A i \in 1..Len(pipeline.v) : pipeline.v[i].t = "dict"
                /\ \E i \in 1..Len(pipeline.v) : ~DocPasses(pipeline.v[i])
      [] OTHER -> FALSE

\* C21: whatever tool calls are made and with whatever arguments, every
\* execute_query / execute_find / execute_aggregate call of a connector
\* carries SQL that passed the denylist and the ';' check, or a filter /
\* stages with no reachable $where, $function or $accumulator key; a call
\* the check turns down returns success = false and makes no connector
\* call, and neither does a call that an exception leaves.
C21_DispatchOnlyChecked ==
    pc = "dispatch" =>
        /\ \A i \in 1..Len(connector_calls) :
              ConnectorCallPasses(connector_calls[i])
        /\ (verdict # None /\ RejectedCall(arg)) =>
              /\ verdict.exc = None
              /\ Get(verdict.val, "success", None) = Bool(FALSE)
              /\ verdict.conns = <<>>
        /\ (verdict # None /\ Truthy(verdict.exc)) => verdict.conns = <<>>

\* a checked pipeline reached the connector, then a pipeline with a nested
\* $accumulator was turned down
C21_Witness ==
    /\ pc = "dispatch"
    /\ \E i \in 1..Len(connector_calls) : connector_calls[i].op = "execute_aggregate"
    /\ RejectedCall(arg)
    /\ arg.tool = "mongodb_aggregate"
    /\ verdict.val = exec_failure("Pipeline contains unsafe operators")

-----------------------------------------------------------------------------
(* The two checks side by side: the generator-side validator and the      *)
(* dispatch-side _is_safe_query applied to one query, which is then sent  *)
(* through execute_tool.                                                  *)

RefineKeys == Keys \cup {"$accumulator"}

\* what a key of the document may hold
RefineInner ==
    {Leaf} \cup {Stage(k, Leaf) : k \in RefineKeys}
           \cup {List(<< Leaf, Stage(k, Leaf) >>) : k \in RefineKeys}

RefineDistinctKeys(n) ==
    {ks \in [1..n -> RefineKeys] : \A i, j \in 1..n : ks[i] = ks[j] => i = j}

InitRefine ==
    /\ NoRequest
    /\ pc = "check"
    /\ \/ arg \in {Str(text) : text \in SqlTexts}
       \/ \E n \in 0..MaxWidth : \E ks \in RefineDistinctKeys(n) :
             \E vs \in [1..n -> RefineInner] :
                arg = Dict([i \in 1..n |-> KV(ks[i], vs[i])])
    /\ verdict = None

\* validate_sql_safety(sql, settings.blocked_sql_keywords) and
\* PostgresMCPClient._is_safe_query(sql) on the same text
CheckSql ==
    /\ pc = "check"
    /\ arg.t = "str"
    /\ verdict' = validate_sql_safety_of(arg, blocked_sql_keywords)
    /\ result' = Bool(postgres_is_safe_query(arg.v))
    /\ pc' = "checked"
    /\ UNCHANGED << agent_vars, user_query, routing, gen_result, exec_result,
                    raised, llm_calls, tool_calls, connector_calls,
                    validated, llm_response, history_before, tracer, arg >>

\* validate_mongo_safety(query) and MongoDBMCPClient._is_safe_query(query)
\* on the same document
CheckMongo ==
    /\ pc = "check"
    /\ arg.t = "dict"
    /\ verdict' = validate_mongo_safety(arg)
    /\ result' = mongodb_is_safe_query(arg).val
    /\ pc' = "checked"
    /\ UNCHANGED << agent_vars, user_query, routing, gen_result, exec_result,
                    raised, llm_calls, tool_calls, connector_calls,
                    validated, llm_response, history_before, tracer, arg >>

\* the query goes to MCPManager.execute_tool as the agent would send it
SendChecked ==
    /\ pc = "checked"
    /\ \E conn \in {c \in ConnOutcomes : c.ok => c.rows = 2} :
         \E out \in {IF arg.t = "str"
                     THEN execute_tool("postgres_query",
                                       Dict(<< KV("sql", arg) >>), conn)
                     ELSE execute_tool("mongodb_find",
                                       Dict(<< KV("collection", Str("users")),
                                               KV("filter", arg) >>), conn)} :
            /\ exec_result' = out.val
            /\ tool_calls' = out.tools
            /\ connector_calls' = out.conns
    /\ pc' = "sent"
    /\ UNCHANGED << agent_vars, user_query, routing, gen_result, result,
                    raised, llm_calls, validated, llm_response,
                    history_before, tracer, arg, verdict >>

SpecRefine == InitRefine /\ [][CheckSql \/ CheckMongo \/ SendChecked]_vars

GeneratorDenylist == {"$where", "$function"}

ReachableKeySet(d) == {ReachableKeys(d)[i] : i \in 1..Len(ReachableKeys(d))}

\* C22: on every SQL text the dispatch-side check answers true exactly when
\* validate_sql_safety answers safe; on every document whatever the
\* dispatch-side check accepts the generator-side validator accepts, and the
\* two differ exactly when $accumulator is the only denylisted reachable
\* key: such a document is accepted by the validator and comes back from
\* dispatch as a failure without reaching the connector.
C22_DispatchRefinesValidator ==
    pc \in {"checked", "sent"} =>
        /\ arg.t = "str" => (result.v <=> verdict.safe)
        /\ arg.t = "dict" =>
              /\ result.v => verdict.safe
              /\ (result.v # verdict.safe) <=>
                    /\ "$accumulator" \in ReachableKeySet(arg)
                    /\ ReachableKeySet(arg) \cap GeneratorDenylist = {}
              /\ (pc = "sent" /\ verdict.safe /\ ~result.v) =>
                    /\ exec_result = exec_failure("Query contains unsafe operators")
                    /\ connector_calls = <<>>

\* a filter with $accumulator under a sequence: safe for the validator,
\* turned down at dispatch
C22_Witness ==
    /\ pc = "sent"
    /\ arg.t = "dict"
    /\ verdict.safe
    /\ ~result.v
    /\ exec_result = exec_failure("Query contains unsafe operators")

-----------------------------------------------------------------------------
(* The $limit stage: DatabaseAgent._execute_query sends one generated      *)
(* aggregation, held in gen_result and shown by result.generated_query, to *)
(* the store, and sends the same object again.                             *)

AggregatePipelines ==
    { List(<<>>),
      List(<< Stage("$match", Active) >>),
      List(<< Stage("$match", Active), Stage("$limit", Num(5)) >>),
      List(<< Stage("$limit", Num(5)), Stage("$match", Active) >>),
      List(<< Stage("$facet",
                    Stage("top", List(<< Stage("$limit", Num(5)) >>))) >>),
      List(<< Stage("$group", Stage("n", Stage("$accumulator", Str("f")))) >>) }

\* the limit field of the generated query: absent, null, 0 or a number
AggregateLimits == { <<>>, << KV("limit", None) >>, << KV("limit", Num(0)) >>,
                     << KV("limit", Num(5)) >> }

InitAggregate ==
    /\ available_databases = {"mongodb"}
    /\ sql_generator = FALSE
    /\ mongo_generator = TRUE
    /\ conversation_history = <<>>
    /\ returned = <<>>
    /\ clears = 0
    /\ user_query = "Events today"
    /\ routing = Route("mongodb", 8)
    /\ \E p \in AggregatePipelines : \E l \in AggregateLimits :
          gen_result = Dict(<< KV("success", Bool(TRUE)),
                               KV("query_type", Str("aggregate")),
                               KV("collection", Str("events")),
                               KV("pipeline", p) >> \o l)
    /\ exec_result = None
    /\ result = [NewResult("Events today") EXCEPT !.generated_query = gen_result]
    /\ raised = FALSE
    /\ llm_calls = 1
    /\ tool_calls = <<>>
    /\ connector_calls = <<>>
    /\ validated = <<>>
    /\ llm_response = None
    /\ history_before = <<>>
    /\ langfuse = TracingDisabled
    /\ tracer = NewTracer
    /\ pc = "aggregate"
    /\ arg = <<>>
    /\ verdict = None

\* self._execute_query("mongodb", gen_result): the connector appends to the
\* list that gen_result and result["generated_query"] hold; arg keeps how
\* each call ended at the store
ExecuteAggregate(conn) ==
    /\ pc = "aggregate"
    /\ Len(arg) < MaxCalls
    /\ \E d \in {execute_query("mongodb", gen_result, conn)} :
         \E shared \in {with_pipeline(gen_result, d.pipeline)} :
            /\ gen_result' = shared
            /\ result' = [result EXCEPT !.generated_query = shared]
            /\ exec_result' = d.val
            /\ tool_calls' = tool_calls \o d.tools
            /\ connector_calls' = connector_calls \o d.conns
    /\ arg' = Append(arg, conn)
    /\ UNCHANGED << agent_vars, pc, user_query, routing, raised, llm_calls,
                    validated, llm_response, history_before, tracer, verdict >>

SpecAggregate == InitAggregate /\ [][\E conn \in ConnOutcomes : ExecuteAggregate(conn)]_vars

HasTopLevelLimit(stages) ==
    \E i \in 1..Len(stages) : "$limit" \in KeysOf(stages[i])

\* the limit that applies: the generated one, or the maximum when it is
\* absent, null or 0
EffectiveLimit(gen) ==
    LET limit == Get(gen, "limit", None)
    IN  IF limit \in {None, Num(0)} THEN Num(max_query_rows) ELSE limit

\* the aggregation reached collection.aggregate in one of the calls so far
ReachedStore ==
    /\ connector_calls # <<>>
    /\ \E i \in 1..Len(arg) : arg[i].ok \/ arg[i].late

\* C23: once an aggregation has run at the store, the pipeline that
\* gen_result and result.generated_query hold is the generated pipeline
\* with one {$limit: L} stage appended at its end if no stage of it had a
\* top-level $limit key, and the generated pipeline itself otherwise, L
\* being the generated limit or the configured maximum when that is absent,
\* null or 0; running it again appends nothing.  A pipeline that never
\* reached the store is as generated.
C23_LimitAppendedOnce ==
    (pc = "aggregate" /\ arg # <<>>) =>
        LET generated == connector_calls[1].query.v
            live == Get(gen_result, "pipeline", None)
        IN  /\ result.generated_query = gen_result
            /\ connector_calls = <<>> =>
                  live \in AggregatePipelines
            /\ (connector_calls # <<>> /\ ~ReachedStore) =>
                  live = List(generated)
            /\ ReachedStore =>
                  /\ live = IF HasTopLevelLimit(generated) THEN List(generated)
                            ELSE List(Append(generated,
                                     Stage("$limit", EffectiveLimit(gen_result))))
                  /\ HasTopLevelLimit(live.v)

\* a pipeline with a $limit only inside $facet ran twice and holds one
\* appended {$limit: 1000}
C23_Witness ==
    /\ pc = "aggregate"
    /\ Len(arg) = 2
    /\ arg[1].ok /\ arg[2].ok
    /\ Len(connector_calls) = 2
    /\ Len(connector_calls[1].query.v) = 1
    /\ HasKey(connector_calls[1].query.v[1], "$facet")
    /\ Get(result.generated_query, "pipeline", None)
          = List(<< connector_calls[1].query.v[1],
                    Stage("$limit", Num(max_query_rows)) >>)

-----------------------------------------------------------------------------
(* Generated queries that cannot be dispatched. *)

\* the generator tagged its result a success and the execution step ran
ExecutionStepRan ==
    /\ pc \in {"executed", "done"}
    /\ gen_result # None
    /\ Truthy(Get(gen_result, "success", None))
    /\ exec_result # None

EmptySql ==
    routing.database = "postgresql" /\ ~Truthy(Get(gen_result, "sql", None))

NoCollection ==
    routing.database = "mongodb" /\ ~Truthy(Get(gen_result, "collection", None))

OtherQueryType ==
    /\ routing.database = "mongodb"
    /\ Truthy(Get(gen_result, "collection", None))
    /\ Get(gen_result, "query_type", None) \notin {Str("find"), Str("aggregate")}

EmptyPipeline ==
    /\ routing.database = "mongodb"
    /\ Truthy(Get(gen_result, "collection", None))
    /\ Get(gen_result, "query_type", None) = Str("aggregate")
    /\ ~Truthy(Get(gen_result, "pipeline", List(<<>>)))

\* the request failed with this execution error and left the history alone
FailedWith(prefix) ==
    /\ pc = "done"
    /\ ~raised
    /\ ~result.success
    /\ result.error = Get(exec_result, "error", None)
    /\ result.error.t = "str"
    /\ startswith(result.error.v, prefix)
    /\ connector_calls = <<>>
    /\ conversation_history = history_before

-----------------------------------------------------------------------------
\* C25: for every question, fast routing names exactly one store; with a
\* non-empty set of available stores the store is one of them, and a store
\* that is not available is named only when no store is available: then it
\* is the relational store with confidence 0.5.
C25_RouteIsAvailable ==
    pc = "routed" =>
        /\ routing.database \in Databases
        /\ result.database = Str(routing.database)
        /\ available_databases # {} => routing.database \in available_databases
        /\ routing.database \notin available_databases =>
              /\ available_databases = {}
              /\ routing = Route("postgresql", 5)

\* a question with document keywords only, the relational store alone
\* available: routed to the relational store
C25_Witness ==
    /\ pc = "routed"
    /\ available_databases = {"postgresql"}
    /\ mongo_score(user_query) > postgres_score(user_query)
    /\ routing = Route("postgresql", 6)

-----------------------------------------------------------------------------
\* C26: an LLM call and an execute_tool call are made only for a store of
\* the available set computed at construction; a request routed to a store
\* that is not available ends in a failure result with no LLM call and no
\* execution call.
C26_OnlyAvailableStores ==
    pc \in {"routed", "generated", "executed", "done"} /\ routing # NoRoute =>
        /\ (llm_calls > 0 \/ tool_calls # <<>> \/ connector_calls # <<>>)
              => routing.database \in available_databases
        /\ (pc = "done" /\ routing.database \notin available_databases) =>
              /\ ~result.success
              /\ llm_calls = 0
              /\ tool_calls = <<>>

-----------------------------------------------------------------------------
(* The LLM-backed router: QueryRouter.route_query.  The agent builds it   *)
(* with the list MCPManager.get_available_databases returned.            *)

\* the list get_available_databases builds: postgresql first
get_available_databases(available) ==
    SelectSeq(<< "postgresql", "mongodb" >>, LAMBDA db : db \in available)

InList(value, list) == \E i \in 1..Len(list) : value = Str(list[i])

Routed(val, llm) == [exc |-> None, val |-> val, llm |-> llm]
RouterRaises(text, llm) == [exc |-> Str(text), val |-> None, llm |-> llm]

\* {"database": self.available_databases[0], "confidence": 0.5,
\*  "reasoning": ...}; the subscript raises on an empty list
router_default(list, reasoning) ==
    IF list = <<>> THEN Exc("IndexError: list index out of range")
    ELSE Ok(Dict(<< KV("database", Str(list[1])), KV("confidence", Num(5)),
                    KV("reasoning", Str(reasoning)) >>))

\* QueryRouter._parse_routing_response: only JSONDecodeError is caught
parse_routing_response(response, list) ==
    IF response.kind = "text"
    THEN router_default(list, "Failed to parse routing response")
    ELSE IF response.val.t # "dict"
    THEN Exc("AttributeError: object has no attribute 'get'")
    ELSE IF ~InList(Get(response.val, "database", None), list)
    THEN IF list = <<>> THEN Exc("IndexError: list index out of range")
         ELSE Ok(Set(Set(response.val, "database", Str(list[1])),
                     "confidence", Num(5)))
    ELSE Ok(response.val)

\* QueryRouter.route_query: `except Exception` builds the default itself
route_query(response, list) ==
    IF Len(list) = 1
    THEN Routed(Dict(<< KV("database", Str(list[1])), KV("confidence", Num(10)),
                        KV("reasoning", Str("Only one database available")) >>),
                0)
    ELSE CHOOSE out \in
           { IF ~Truthy(tried.exc) THEN Routed(tried.val, 1)
             ELSE LET fallback == router_default(list,
                                     "Routing error, defaulting: " \o tried.exc.v)
                  IN  IF Truthy(fallback.exc) THEN RouterRaises(fallback.exc.v, 1)
                      ELSE Routed(fallback.val, 1)
             : tried \in {IF response.kind = "raise" THEN Exc(response.text)
                          ELSE parse_routing_response(response, list)} } : TRUE

Routing(database, confidence) ==
    Json(Dict(<< KV("database", database), KV("confidence", confidence),
                 KV("reasoning", Str("because")) >>))

\* what the LLM may answer to the routing prompt
RouterResponses ==
    { CallFails("APIConnectionError"),
      Routing(Str("postgresql"), Num(9)),
      Routing(Str("mongodb"), Num(7)),
      Routing(Str("mysql"), Num(9)),
      Routing(Str("MongoDB"), Num(10)),
      Routing(None, Num(9)),
      Routing(List(<< Str("postgresql") >>), Num(9)),
      Json(Dict(<< KV("confidence", Num(9)) >>)),
      Json(Dict(<< KV("database", Str("mongodb")) >>)),
      Json(List(<< Str("postgresql") >>)),
      Json(Str("postgresql")),
      Text("postgresql"),
      Text("") }

InitRouter ==
    /\ available_databases \in SUBSET Databases
    /\ sql_generator = FALSE
    /\ mongo_generator = FALSE
    /\ conversation_history = <<>>
    /\ returned = <<>>
    /\ clears = 0
    /\ user_query \in Questions
    /\ pc = "route_query"
    /\ result = None
    /\ routing = NoRoute
    /\ gen_result = None
    /\ exec_result = None
    /\ raised = FALSE
    /\ llm_calls = 0
    /\ tool_calls = <<>>
    /\ connector_calls = <<>>
    /\ validated = <<>>
    /\ llm_response = None
    /\ history_before = <<>>
    /\ arg = None
    /\ verdict = None
    /\ langfuse = TracingDisabled
    /\ tracer = NewTracer

\* self.router.route_query(user_query, schema_context): verdict is what the
\* call returned or raised
RouteQuery(response) ==
    /\ pc = "route_query"
    /\ \E out \in {route_query(response,
                               get_available_databases(available_databases))} :
          /\ verdict' = out
          /\ raised' = Truthy(out.exc)
          /\ llm_calls' = llm_calls + out.llm
          /\ llm_response' = IF out.llm = 1 THEN response ELSE None
    /\ pc' = "routed_by_llm"
    /\ UNCHANGED << agent_vars, user_query, routing, gen_result, exec_result,
                    result, tool_calls, connector_calls, validated,
                    history_before, tracer, arg >>

SpecRouter == InitRouter /\ [][\E response \in RouterResponses : RouteQuery(response)]_vars

\* the LLM call failed, its answer did not parse, or it named no available
\* store
RouterMustFallBack ==
    /\ llm_response # None
    /\ \/ llm_response.kind \in {"raise", "text"}
       \/ llm_response.val.t # "dict"
       \/ \A db \in available_databases :
             Get(llm_response.val, "database", None) # Str(db)

FirstAvailable ==
    IF "postgresql" \in available_databases THEN "postgresql" ELSE "mongodb"

\* C27: route_query never raises and always returns a store of the
\* available set: with exactly one available store that store with
\* confidence 1.0 and no LLM call; otherwise, when the LLM call fails, the
\* answer does not parse or names no available store, the first available
\* store with confidence 0.5.
C27_RouterReturnsAvailable ==
    pc = "routed_by_llm" =>
        /\ verdict.exc = None
        /\ ~raised
        /\ \E db \in available_databases :
              Get(verdict.val, "database", None) = Str(db)
        /\ Cardinality(available_databases) = 1 =>
              /\ llm_calls = 0
              /\ Get(verdict.val, "confidence", None) = Num(10)
        /\ Cardinality(available_databases) # 1 =>
              /\ llm_calls = 1
              /\ RouterMustFallBack =>
                    /\ Get(verdict.val, "database", None) = Str(FirstAvailable)
                    /\ Get(verdict.val, "confidence", None) = Num(5)

-----------------------------------------------------------------------------
(* The chat front end, app.py: one module-level `agent` for every session *)
(* of the process.  A handler runs alone between two of its awaits.       *)
(*   arg                   the module-level agent: None or an agent       *)
(*   conversation_history  the history of that agent                      *)
(*   verdict[s]            session s: where its handler stands, the       *)
(*                         entries its own questions added since it       *)
(*                         started or cleared, and the last reply it got  *)

Sessions == {1, 2}

Agent == Str("DatabaseAgent")

SessionClosed == [at |-> "closed", q |-> "", own |-> <<>>, reply |-> ""]

InitSessions ==
    /\ available_databases = Databases
    /\ sql_generator = FALSE
    /\ mongo_generator = FALSE
    /\ conversation_history = <<>>
    /\ returned = <<>>
    /\ clears = 0
    /\ Idle
    /\ arg = None
    /\ verdict = [s \in Sessions |-> SessionClosed]
    /\ langfuse = TracingDisabled

SessionStep(s, session) ==
    /\ verdict' = [verdict EXCEPT ![s] = session]
    /\ UNCHANGED << available_databases, sql_generator, mongo_generator,
                    returned, clears, langfuse, request_vars >>

\* on_chat_start, lines 23-32: `agent = DatabaseAgent()`
ChatStart(s) ==
    /\ verdict[s].at = "closed"
    /\ arg' = Agent
    /\ conversation_history' = <<>>
    /\ SessionStep(s, [at |-> "open", q |-> "", own |-> <<>>, reply |-> "welcome"])

\* on_message, lines 82-106: the None test, /clear, or the wait for the
\* "Analyzing your question..." message to be sent
MessageReceived(s, q) ==
    /\ verdict[s].at = "open"
    /\ IF arg = None
       THEN /\ SessionStep(s, [verdict[s] EXCEPT !.reply = "Agent not initialized"])
            /\ UNCHANGED << arg, conversation_history >>
       ELSE IF lower(q) \in {"/clear", "clear"}
       THEN /\ conversation_history' = clear_history(conversation_history)
            /\ SessionStep(s, [verdict[s] EXCEPT !.own = <<>>,
                                                 !.reply = "history cleared"])
            /\ UNCHANGED arg
       ELSE /\ Len(conversation_history) < MaxHistory
            /\ Len(verdict[s].own) < MaxHistory
            /\ SessionStep(s, [verdict[s] EXCEPT !.at = "thinking", !.q = q])
            /\ UNCHANGED << arg, conversation_history >>

\* on_message, lines 108-109: agent.process_query(user_query) on whatever
\* the module-level agent is by now; process_query has no await: it ends
\* with n rows and two history entries, or with a failure
MessageProcessed(s) ==
    /\ verdict[s].at = "thinking"
    /\ IF arg = None
       THEN /\ SessionStep(s, [verdict[s] EXCEPT !.at = "open",
                                                 !.reply = "AttributeError"])
            /\ UNCHANGED << arg, conversation_history >>
       ELSE \/ \E n \in RowCounts :
                 /\ conversation_history' =
                        conversation_history \o history_entries(verdict[s].q, n)
                 /\ SessionStep(s, [verdict[s] EXCEPT
                        !.at = "open",
                        !.own = @ \o history_entries(verdict[s].q, n),
                        !.reply = "data"])
                 /\ UNCHANGED arg
            \/ /\ SessionStep(s, [verdict[s] EXCEPT !.at = "open",
                                                    !.reply = "error"])
               /\ UNCHANGED << arg, conversation_history >>

\* on_chat_end, lines 236-241: agent.close(); agent = None
ChatEnd(s) ==
    /\ verdict[s].at = "open"
    /\ IF arg # None
       THEN arg' = None /\ conversation_history' = <<>>
       ELSE UNCHANGED << arg, conversation_history >>
    /\ SessionStep(s, SessionClosed)

SessionsNext ==
    \E s \in Sessions :
        \/ ChatStart(s)
        \/ \E q \in {"show all customers", "/clear"} : MessageReceived(s, q)
        \/ MessageProcessed(s)
        \/ ChatEnd(s)

SpecSessions == InitSessions /\ [][SessionsNext]_vars

\* a is b with some entries left out
IsSubsequence(a, b) ==
    \E f \in [1..Len(a) -> 1..Len(b)] :
        /\ \A i \in 1..Len(a) : a[i] = b[f[i]]
        /\ \A i, j \in 1..Len(a) : i < j => f[i] < f[j]

\* C28: while a session is open, the agent it is using is there and the
\* history still holds, in order, every entry the session's own questions
\* added since it started or last cleared; no reply of the session is
\* 'Agent not initialized' or the error of a missing agent.  Nothing
\* another session does changes that.
C28_SessionsKeepTheirHistory ==
    pc = "idle" /\ DOMAIN verdict = Sessions =>
        \A s \in Sessions :
            verdict[s].at # "closed" =>
                /\ arg # None
                /\ IsSubsequence(verdict[s].own, conversation_history)
                /\ verdict[s].reply \notin {"Agent not initialized", "AttributeError"}

-----------------------------------------------------------------------------
(* The generation prompt: SQLGenerator._build_prompt and                   *)
(* MongoQueryGenerator._build_prompt, which differ in the fixed text only. *)
(* Of that fixed text the model keeps the opening sentence and the         *)
(* "USER QUESTION:" line around the history section.                       *)

history_window == 5
content_limit == 500

MaxTurns == 3

\* history[-n:]
last_entries(history, n) ==
    SubSeq(history, Max({Len(history) - n, 0}) + 1, Len(history))

\* text[:n]
cut(text, n) == SubSeq(text, 1, Min({n, Len(text)}))

RECURSIVE history_lines(_)
\* f"{role}: {content}\n" for each message
history_lines(msgs) ==
    IF msgs = <<>> THEN ""
    ELSE msgs[1].role \o ": " \o cut(msgs[1].content, content_limit) \o "\n"
            \o history_lines(Tail(msgs))

\* history_context built from every entry: no [-5:]
history_context_unbounded(conversation) ==
    IF conversation = <<>> THEN ""
    ELSE "\nPrevious conversation:\n" \o history_lines(conversation)

\* history_context, lines 86-92
history_context(conversation) ==
    IF conversation = <<>> THEN ""
    ELSE "\nPrevious conversation:\n"
            \o history_lines(last_entries(conversation, history_window))

prompt_opening(database) ==
    IF database = "postgresql"
    THEN "You are an expert SQL query generator for PostgreSQL.\n"
    ELSE "You are an expert MongoDB query generator.\n"

build_prompt(database, q, conversation) ==
    prompt_opening(database) \o history_context(conversation)
        \o "\n\nUSER QUESTION: " \o q

RECURSIVE Repeat(_, _)
Repeat(text, n) == IF n = 0 THEN "" ELSE text \o Repeat(text, n - 1)

\* a question of 520 characters whose last 20 are past the cut
LongQuestion == Repeat("0123456789", 50) \o "and the rest is cut."

PromptQuestions == {"show all customers", "Events today", LongQuestion}

\* the histories process_query builds: a user entry and an assistant entry
\* per answered question
RECURSIVE Turns(_)
Turns(k) ==
    IF k = 0 THEN {<<>>}
    ELSE {h \o history_entries(q, n) :
             h \in Turns(k - 1), q \in PromptQuestions, n \in RowCounts}

InitPrompt ==
    /\ available_databases = Databases
    /\ sql_generator = TRUE
    /\ mongo_generator = TRUE
    /\ \E k \in 0..MaxTurns : conversation_history \in Turns(k)
    /\ returned = <<>>
    /\ clears = 0
    /\ pc = "routed"
    /\ user_query = "show all customers"
    /\ routing \in {Route("postgresql", 8), Route("mongodb", 6)}
    /\ gen_result = None
    /\ exec_result = None
    /\ result = NewResult(user_query)
    /\ raised = FALSE
    /\ llm_calls = 0
    /\ tool_calls = <<>>
    /\ connector_calls = <<>>
    /\ validated = <<>>
    /\ llm_response = None
    /\ history_before = conversation_history
    /\ tracer = NewTracer
    /\ langfuse = TracingDisabled
    /\ arg = None
    /\ verdict = None

\* generate, line 32: prompt = self._build_prompt(user_query,
\* conversation_history); arg is the prompt
BuildPrompt ==
    /\ pc = "routed"
    /\ arg' = Str(build_prompt(routing.database, user_query, conversation_history))
    /\ pc' = "prompted"
    /\ UNCHANGED << agent_vars, user_query, routing, gen_result, exec_result,
                    result, raised, llm_calls, tool_calls, connector_calls,
                    validated, llm_response, history_before, tracer, verdict >>

SpecPrompt == InitPrompt /\ [][BuildPrompt]_vars

\* the entries of the view: the last min(5, n) of the n entries, by index
ViewEntries(history) ==
    LET n == Len(history)
        k == IF n < 5 THEN n ELSE 5
    IN  [i \in 1..k |-> history[n - k + i]]

FirstChars(text, n) == IF Len(text) <= n THEN text ELSE SubSeq(text, 1, n)

RECURSIVE ViewText(_)
ViewText(entries) ==
    IF entries = <<>> THEN ""
    ELSE entries[1].role \o ": " \o FirstChars(entries[1].content, 500) \o "\n"
            \o ViewText(Tail(entries))

\* C29: the history section of a generation prompt holds exactly the last
\* min(5, n) entries of the n-entry history, in their order, each content
\* cut to its first 500 characters; an empty history adds no section; the
\* history itself is as it was before the prompt was built.
C29_PromptHistoryView ==
    pc = "prompted" =>
        /\ arg.v = prompt_opening(routing.database)
                     \o (IF conversation_history = <<>> THEN ""
                         ELSE "\nPrevious conversation:\n"
                                \o ViewText(ViewEntries(conversation_history)))
                     \o "\n\nUSER QUESTION: " \o user_query
        /\ conversation_history = <<>> => ~Contains(arg.v, "Previous conversation")
        /\ conversation_history = history_before

\* six entries, the oldest left out, and a long question among the last five
C29_Witness ==
    /\ pc = "prompted"
    /\ Len(conversation_history) = 6
    /\ conversation_history[1].content = "Events today"
    /\ conversation_history[3].content = LongQuestion
    /\ ~Contains(arg.v, "Events today")
    /\ ~Contains(arg.v, "and the rest")
    /\ Contains(arg.v, "user: 0123456789")

-----------------------------------------------------------------------------
(* The trace of a request, with Langfuse configured and working. *)

TracingWorks == langfuse = [enabled |-> TRUE, fails |-> "none"]

Calls(call) == {i \in 1..Len(tracer.calls) : tracer.calls[i] = call}

\* C30: when process_query has run to its end, on whichever path, its trace
\* was started exactly once and ended exactly once, and exactly one success
\* score was logged: 1.0 if the result has success = true, 0.0 if not.
C30_OneTraceOneScore ==
    (TracingWorks /\ pc = "done") =>
        /\ Cardinality(Calls("trace_start")) = 1
        /\ Cardinality(Calls("trace_end")) = 1
        /\ Cardinality(Calls("score 0.0") \cup Calls("score 1.0")) = 1
        /\ (Calls("score 1.0") # {}) <=> result.success

=============================================================================
